---- MODULE Spec2Model ----
(***************************************************************************)
(* EXT_mesh_bmesh codec of io_scene_vrm: the binary buffer / accessor      *)
(* layer, the topology extractor, the topology encoder and the topology    *)
(* decoder (exporter/ext_mesh_bmesh_exporter.py and                        *)
(* importer/ext_mesh_bmesh_importer.py).                                   *)
(*                                                                         *)
(* Python values are modelled with their run-time type, because the code   *)
(* branches on it (isinstance, struct.pack argument checks, list/tuple     *)
(* equality).  A number is an int or a float; floats are held in halves    *)
(* (n = 2 * value) so that 0.5, 1.0 and 2.0 are exact.  Python indices are *)
(* 0-based; sequences here are 1-based, index i is element i + 1.          *)
(***************************************************************************)
EXTENDS Integers, Sequences, FiniteSets, TLC

VARIABLES arena, last, calls, json_dict, workers

vars == <<arena, last, calls, json_dict, workers>>

\* the callers that may be inside create_buffer_view on the same exporter
Workers == {1, 2}

\* no caller is inside a call and no call has returned
NoWorkers ==
  [pc |-> [t \in Workers |-> "idle"],
   data |-> [t \in Workers |-> <<>>],
   buffer_view_index |-> [t \in Workers |-> 0],
   byte_offset |-> [t \in Workers |-> 0],
   view |-> [t \in Workers |-> 0],
   returned |-> <<>>,
   overlapped |-> FALSE]

(***************************************************************************)
(* Python values                                                           *)
(***************************************************************************)
PyInt(n) == [k |-> "int", n |-> n, c |-> <<>>]

PyFloat(h) == [k |-> "float", n |-> h, c |-> <<>>]

\* a float32 bit pattern that is none of the modelled floats, kept by its bits
PyFloatBits(w) == [k |-> "floatbits", n |-> w, c |-> <<>>]

PyList(cs) == [k |-> "list", n |-> 0, c |-> cs]

PyTuple(cs) == [k |-> "tuple", n |-> 0, c |-> cs]

IsNum(v) == v.k \in {"int", "float", "floatbits"}

\* the value of a number in halves (an int n is 2n halves)
Halves(v) == IF v.k = "int" THEN 2 * v.n ELSE v.n

\* Python ==  on numbers, lists and tuples (a list never equals a tuple)
NumEq(x, y) ==
  IF x.k = "floatbits" \/ y.k = "floatbits"
    THEN x.k = y.k /\ x.n = y.n
    ELSE Halves(x) = Halves(y)

PyEq(x, y) ==
  IF IsNum(x) /\ IsNum(y) THEN NumEq(x, y)
  ELSE IF x.k = y.k /\ ~IsNum(x)
    THEN /\ Len(x.c) = Len(y.c)
         /\ \A i \in 1..Len(x.c) : IsNum(x.c[i]) /\ IsNum(y.c[i]) /\ NumEq(x.c[i], y.c[i])
    ELSE FALSE

\* Python ==  on two lists of values
PyListEq(xs, ys) ==
  /\ Len(xs) = Len(ys)
  /\ \A i \in 1..Len(xs) : PyEq(xs[i], ys[i])

Ints(ns) == [i \in 1..Len(ns) |-> PyInt(ns[i])]

Zeros(n) == [i \in 1..n |-> PyInt(0)]

(***************************************************************************)
(* Outcome of a call: exc = "none" and the value, or the exception raised  *)
(***************************************************************************)
Ok(v) == [exc |-> "none", val |-> v]

Raise(e) == [exc |-> e, val |-> <<>>]

RECURSIVE Flatten(_)
Flatten(ss) == IF ss = <<>> THEN <<>> ELSE Head(ss) \o Flatten(Tail(ss))

(***************************************************************************)
(* struct.pack / struct.unpack_from, little-endian                         *)
(***************************************************************************)
LE32(n) == <<n % 256, (n \div 256) % 256, (n \div 65536) % 256, (n \div 16777216) % 256>>

\* IEEE-754 binary32 of the modelled floats, by halves: 0.0 0.5 1.0 1.5 2.0
F32Word(h) ==
  CASE h = 0 -> 0
    [] h = 1 -> 1056964608
    [] h = 2 -> 1065353216
    [] h = 3 -> 1069547520
    [] h = 4 -> 1073741824

FloatHalves == {0, 1, 2, 3, 4}

\* struct.pack("<I", v): v must be an int in 0 .. 2^32-1
CanPackI(v) == v.k = "int" /\ v.n >= 0

\* struct.pack("<f", v): v must be a number
CanPackF(v) == v.k \in {"int", "float"} /\ Halves(v) \in FloatHalves

PackF(v) == LE32(F32Word(Halves(v)))

Word(b, off) == b[off + 1] + 256 * b[off + 2] + 65536 * b[off + 3] + 16777216 * b[off + 4]

UnpackF(b, off) ==
  LET w == Word(b, off) IN
  IF \E h \in FloatHalves : F32Word(h) = w
    THEN PyFloat(CHOOSE h \in FloatHalves : F32Word(h) = w)
    ELSE PyFloatBits(w)

\* one component read by struct.unpack_from(format_char, data, off)
UnpackOne(fmt, b, off) ==
  CASE fmt = "b" -> PyInt(IF b[off + 1] >= 128 THEN b[off + 1] - 256 ELSE b[off + 1])
    [] fmt = "B" -> PyInt(b[off + 1])
    [] fmt = "h" -> LET u == b[off + 1] + 256 * b[off + 2]
                    IN PyInt(IF u >= 32768 THEN u - 65536 ELSE u)
    [] fmt = "H" -> PyInt(b[off + 1] + 256 * b[off + 2])
    [] fmt = "I" -> PyInt(Word(b, off))
    [] fmt = "f" -> UnpackF(b, off)

\* Python slice data[lo:hi] for 0 <= lo, clamped at the end of data
Slice(s, lo, hi) ==
  LET h == IF hi > Len(s) THEN Len(s) ELSE hi
  IN IF lo >= h THEN <<>> ELSE SubSeq(s, lo + 1, h)

pack_uint_array(values) ==
  IF \E i \in 1..Len(values) : ~CanPackI(values[i])
    THEN Raise("struct.error")
    ELSE Ok(Flatten([i \in 1..Len(values) |-> LE32(values[i].n)]))

\* a Vector is held as its three float components .x .y .z
pack_vector3_array(vectors) ==
  Ok(Flatten([i \in 1..Len(vectors) |->
       PackF(vectors[i].c[1]) \o PackF(vectors[i].c[2]) \o PackF(vectors[i].c[3])]))

\* the value loop of create_sparse_accessor / _create_dense_accessor for a
\* VECn shape: struct.pack("<" + "f" * components, *value) for a list,
\* struct.pack("<f", float(value)) otherwise
PackVecElem(value, components) ==
  IF value.k = "list"
    THEN IF Len(value.c) = components /\ \A j \in 1..Len(value.c) : CanPackF(value.c[j])
           THEN Ok(Flatten([j \in 1..Len(value.c) |-> PackF(value.c[j])]))
           ELSE Raise("struct.error")
    ELSE IF value.k = "tuple" THEN Raise("TypeError")
    ELSE IF CanPackF(value) THEN Ok(PackF(value))
    ELSE Raise("struct.error")

RECURSIVE PackVecArray(_, _)
PackVecArray(values, components) ==
  IF values = <<>> THEN Ok(<<>>)
  ELSE LET h == PackVecElem(Head(values), components) IN
       IF h.exc # "none" THEN h
       ELSE LET t == PackVecArray(Tail(values), components) IN
            IF t.exc # "none" THEN t ELSE Ok(h.val \o t.val)

Components(accessor_type) ==
  CASE accessor_type = "VEC2" -> 2
    [] accessor_type = "VEC3" -> 3
    [] accessor_type = "VEC4" -> 4
    [] OTHER -> 1

DefaultValue(accessor_type) ==
  IF accessor_type = "SCALAR" THEN PyInt(0) ELSE PyList(Zeros(Components(accessor_type)))

(***************************************************************************)
(* The arena of one exporter: buffer 0, the buffer views, the accessors.   *)
(* Every operation returns the arena after the call with its outcome.      *)
(***************************************************************************)
Done(a, r) == [a |-> a, exc |-> "none", ret |-> r]

Fail(a, e) == [a |-> a, exc |-> e, ret |-> 0]

\* the buffer left as it is, without alignment
Pad4_Unaligned(buf) == buf

RECURSIVE Pad4(_)
Pad4(buf) == IF Len(buf) % 4 # 0 THEN Pad4(Append(buf, 0)) ELSE buf

\* the view recorded without its bytes being added to the buffer
create_buffer_view_NoExtend(a, data) ==
  LET padded == Pad4(a.buf)
      buffer_view == [buffer |-> 0, byteOffset |-> Len(padded), byteLength |-> Len(data)]
  IN Done([a EXCEPT !.buf = padded, !.views = Append(a.views, buffer_view)],
          Len(a.views))

create_buffer_view(a, data) ==
  LET padded == Pad4(a.buf)
      buffer_view == [buffer |-> 0, byteOffset |-> Len(padded), byteLength |-> Len(data)]
  IN Done([a EXCEPT !.buf = padded \o data, !.views = Append(a.views, buffer_view)],
          Len(a.views))

\* the accessor written over the last one instead of appended
create_accessor_Overwrite(a, buffer_view_index, component_type, count, accessor_type, min_val, max_val) ==
  LET accessor == [bufferView |-> buffer_view_index, componentType |-> component_type,
                   count |-> count, type |-> accessor_type]
  IN Done([a EXCEPT !.accs = IF a.accs = <<>> THEN <<accessor>>
                              ELSE [a.accs EXCEPT ![Len(a.accs)] = accessor]],
          Len(a.accs))

\* min_val / max_val are <<>> for None
create_accessor(a, buffer_view_index, component_type, count, accessor_type, min_val, max_val) ==
  LET base == [bufferView |-> buffer_view_index, componentType |-> component_type,
               count |-> count, type |-> accessor_type]
      withMin == IF min_val # <<>> THEN base @@ [min |-> min_val] ELSE base
      accessor == IF max_val # <<>> THEN withMin @@ [max |-> max_val] ELSE withMin
  IN Done([a EXCEPT !.accs = Append(a.accs, accessor)], Len(a.accs))

\* indices (0-based, ascending) of the elements that are != default_value
NonDefaultIndices(values, default_value) ==
  SelectSeq([i \in 1..Len(values) |-> i - 1],
            LAMBDA i : ~PyEq(values[i + 1], default_value))

NonDefaultValues(values, default_value) ==
  SelectSeq(values, LAMBDA v : ~PyEq(v, default_value))

create_sparse_accessor(a, values, component_type, accessor_type) ==
  LET count == Len(values)
      components == Components(accessor_type)
      default_value == DefaultValue(accessor_type)
      non_default_indices == NonDefaultIndices(values, default_value)
      non_default_values == NonDefaultValues(values, default_value)
  IN
  IF Len(non_default_values) = 0
    THEN \* all values are default: a regular accessor with a single value
         LET data == IF accessor_type = "SCALAR" THEN LE32(0)
                     ELSE Flatten([j \in 1..components |-> LE32(0)])
             bv == create_buffer_view(a, data)
         IN create_accessor(bv.a, bv.ret, component_type, 1, accessor_type, <<>>, <<>>)
    ELSE LET indices_data == pack_uint_array(Ints(non_default_indices))
             indices_buffer_view == create_buffer_view(a, indices_data.val)
             values_data == IF accessor_type = "SCALAR"
                              THEN pack_uint_array(non_default_values)
                              ELSE PackVecArray(non_default_values, components)
         IN IF values_data.exc # "none"
              THEN Fail(indices_buffer_view.a, values_data.exc)
              ELSE LET values_buffer_view ==
                         create_buffer_view(indices_buffer_view.a, values_data.val)
                       accessor ==
                         [componentType |-> component_type,
                          count |-> count,
                          type |-> accessor_type,
                          sparse |-> [count |-> Len(non_default_values),
                                      indices |-> [bufferView |-> indices_buffer_view.ret,
                                                   componentType |-> 5125],
                                      values |-> [bufferView |-> values_buffer_view.ret]]]
                       b == values_buffer_view.a
                   IN Done([b EXCEPT !.accs = Append(b.accs, accessor)], Len(b.accs))

\* Python min / max of a non-empty list of numbers: the first extremal element
PyMin(xs) ==
  LET i == CHOOSE i \in 1..Len(xs) :
             /\ \A j \in 1..Len(xs) : Halves(xs[i]) <= Halves(xs[j])
             /\ \A j \in 1..(i - 1) : Halves(xs[j]) > Halves(xs[i])
  IN xs[i]

PyMax(xs) ==
  LET i == CHOOSE i \in 1..Len(xs) :
             /\ \A j \in 1..Len(xs) : Halves(xs[i]) >= Halves(xs[j])
             /\ \A j \in 1..(i - 1) : Halves(xs[j]) < Halves(xs[i])
  IN xs[i]

_create_dense_accessor(a, values, component_type, accessor_type) ==
  LET count == Len(values)
      components == Components(accessor_type)
      data == IF accessor_type = "SCALAR"
                THEN pack_uint_array(values)
                ELSE PackVecArray(values, components)
  IN
  IF data.exc # "none" THEN Fail(a, data.exc)
  ELSE
    LET bv == create_buffer_view(a, data.val)
        filtered_values ==
          SelectSeq(values, LAMBDA v : v.k = "list" /\ Len(v.c) >= components)
        column(j) == [i \in 1..Len(filtered_values) |-> filtered_values[i].c[j]]
        hasMinMax ==
          /\ values # <<>>
          /\ \/ accessor_type = "SCALAR"
             \/ accessor_type \in {"VEC3", "VEC2", "VEC4"} /\ filtered_values # <<>>
        min_val == IF ~hasMinMax THEN <<>>
                   ELSE IF accessor_type = "SCALAR" THEN <<PyMin(values)>>
                   ELSE [j \in 1..components |-> PyMin(column(j))]
        max_val == IF ~hasMinMax THEN <<>>
                   ELSE IF accessor_type = "SCALAR" THEN <<PyMax(values)>>
                   ELSE [j \in 1..components |-> PyMax(column(j))]
    IN create_accessor(bv.a, bv.ret, component_type, count, accessor_type, min_val, max_val)

\* "if count > 100"
SparseThreshold == 100

\* "non_default_count / count < 0.3", 0.3 held as 3 / 10
SparseRatioNum == 3

SparseRatioDen == 10

\* the size test taken as "count >= 100"
UsesSparse_AtLeast(values, accessor_type) ==
  LET count == Len(values)
      non_default_count == Len(NonDefaultValues(values, DefaultValue(accessor_type)))
  IN /\ count >= SparseThreshold
     /\ SparseRatioDen * non_default_count < SparseRatioNum * count

UsesSparse(values, accessor_type) ==
  LET count == Len(values)
      non_default_count == Len(NonDefaultValues(values, DefaultValue(accessor_type)))
  IN /\ count > SparseThreshold
     /\ SparseRatioDen * non_default_count < SparseRatioNum * count

_create_optimized_accessor(a, values, component_type, accessor_type) ==
  IF UsesSparse(values, accessor_type)
    THEN create_sparse_accessor(a, values, component_type, accessor_type)
    ELSE _create_dense_accessor(a, values, component_type, accessor_type)

(***************************************************************************)
(* Reading: read_buffer_view, read_accessor_data, read_sparse_accessor.    *)
(* The document read is the arena (gltf_data["bufferViews"],               *)
(* gltf_data["accessors"] and buffers[0]).                                 *)
(***************************************************************************)
\* Python list indexing, negative indices counting from the end
PyIndexOk(s, i) == IF i >= 0 THEN i < Len(s) ELSE 0 - i <= Len(s)

PyIndex(s, i) == IF i >= 0 THEN s[i + 1] ELSE s[Len(s) + i + 1]

\* only buffers[0] exists
NumBuffers == 1

read_buffer_view(a, buffer_view_index) ==
  IF buffer_view_index >= Len(a.views) THEN Raise("ValueError")
  ELSE IF ~PyIndexOk(a.views, buffer_view_index) THEN Raise("IndexError")
  ELSE
    LET buffer_view == PyIndex(a.views, buffer_view_index)
        buffer_index == buffer_view.buffer
        byte_offset == IF "byteOffset" \in DOMAIN buffer_view THEN buffer_view.byteOffset ELSE 0
        byte_length == buffer_view.byteLength
    IN IF buffer_index >= NumBuffers THEN Raise("ValueError")
       ELSE Ok(Slice(a.buf, byte_offset, byte_offset + byte_length))

TypeMapKeys == {5120, 5121, 5122, 5123, 5125, 5126}

FormatChar(component_type) ==
  CASE component_type = 5120 -> "b"
    [] component_type = 5121 -> "B"
    [] component_type = 5122 -> "h"
    [] component_type = 5123 -> "H"
    [] component_type = 5125 -> "I"
    [] component_type = 5126 -> "f"

ByteSize(component_type) ==
  CASE component_type \in {5120, 5121} -> 1
    [] component_type \in {5122, 5123} -> 2
    [] component_type \in {5125, 5126} -> 4

read_accessor_data(a, accessor_index) ==
  IF accessor_index >= Len(a.accs) THEN Raise("ValueError")
  ELSE IF ~PyIndexOk(a.accs, accessor_index) THEN Raise("IndexError")
  ELSE
    LET accessor == PyIndex(a.accs, accessor_index) IN
    IF "bufferView" \notin DOMAIN accessor THEN Raise("KeyError")
    ELSE
      LET component_type == accessor.componentType
          count == accessor.count
          accessor_type == accessor.type
          buffer_data == read_buffer_view(a, accessor.bufferView)
          byte_offset == IF "byteOffset" \in DOMAIN accessor THEN accessor.byteOffset ELSE 0
      IN
      IF buffer_data.exc # "none" THEN buffer_data
      ELSE IF component_type \notin TypeMapKeys THEN Raise("ValueError")
      ELSE IF accessor_type \notin {"SCALAR", "VEC2", "VEC3", "VEC4"} THEN Raise("ValueError")
      ELSE
        LET format_char == FormatChar(component_type)
            byte_size == ByteSize(component_type)
            components == Components(accessor_type)
            offset(i) == byte_offset + i * components * byte_size
            element(i) ==
              IF accessor_type = "SCALAR"
                THEN UnpackOne(format_char, buffer_data.val, offset(i))
                ELSE PyList([j \in 1..components |->
                       UnpackOne(format_char, buffer_data.val, offset(i) + (j - 1) * byte_size)])
        IN \* struct.unpack_from needs the whole element inside buffer_data
           IF \E i \in 0..(count - 1) :
                offset(i) + components * byte_size > Len(buffer_data.val)
             THEN Raise("struct.error")
             ELSE Ok([i \in 1..count |-> element(i - 1)])

\* float < int on a float kept by its bits (positive patterns order like their words)
BitsLess(w, count) ==
  IF w < F32Word(2) THEN count >= 1
  ELSE IF w < F32Word(4) THEN count >= 2
  ELSE FALSE

\* "index < count"
IndexLess(index, count) ==
  IF index.k = "floatbits" THEN BitsLess(index.n, count) ELSE Halves(index) < 2 * count

\* "for i, index in enumerate(indices_data): if index < count:
\*      base_values[index] = values_data[i]", from position i (1-based)
RECURSIVE ApplyOverrides(_, _, _, _, _)
ApplyOverrides(base_values, indices_data, values_data, count, i) ==
  IF i > Len(indices_data) THEN Ok(base_values)
  ELSE
    LET index == indices_data[i] IN
    IF ~IsNum(index) THEN Raise("TypeError")
    ELSE IF ~IndexLess(index, count)
      THEN ApplyOverrides(base_values, indices_data, values_data, count, i + 1)
    ELSE IF i > Len(values_data) THEN Raise("IndexError")
    ELSE IF index.k # "int" THEN Raise("TypeError")
    ELSE IF ~PyIndexOk(base_values, index.n) THEN Raise("IndexError")
    ELSE
      LET pos == IF index.n >= 0 THEN index.n + 1 ELSE Len(base_values) + index.n + 1
      IN ApplyOverrides([base_values EXCEPT ![pos] = values_data[i]],
                        indices_data, values_data, count, i + 1)

\* "while len(base_values) < count: base_values.append(default)"
FillBase(base_values, count, accessor_type) ==
  IF Len(base_values) >= count THEN base_values
  ELSE base_values \o
       [i \in 1..(count - Len(base_values)) |->
          IF accessor_type = "SCALAR" THEN PyInt(0)
          ELSE PyList(Zeros(Components(accessor_type)))]

read_sparse_accessor(a, accessor_index) ==
  IF accessor_index >= Len(a.accs) THEN Raise("ValueError")
  ELSE IF ~PyIndexOk(a.accs, accessor_index) THEN Raise("IndexError")
  ELSE
    LET accessor == PyIndex(a.accs, accessor_index) IN
    IF "sparse" \notin DOMAIN accessor
      THEN read_accessor_data(a, accessor_index)
      ELSE
        LET sparse == accessor.sparse
            count == accessor.count
            accessor_type == accessor.type
            base_read == IF "bufferView" \in DOMAIN accessor
                           THEN read_accessor_data(a, accessor_index)
                           ELSE Ok(<<>>)
            \* the buffer view indices are handed to read_accessor_data
            indices_data == read_accessor_data(a, sparse.indices.bufferView)
            values_data == read_accessor_data(a, sparse.values.bufferView)
        IN IF base_read.exc # "none" THEN base_read
           ELSE IF indices_data.exc # "none" THEN indices_data
           ELSE IF values_data.exc # "none" THEN values_data
           ELSE ApplyOverrides(FillBase(base_read.val, count, accessor_type),
                               indices_data.val, values_data.val, count, 1)

(***************************************************************************)
(* The mesh handed to the extractor: mesh.vertices, mesh.edges,            *)
(* mesh.polygons and mesh.loops as the host editor keeps them after        *)
(* from_pydata(vertices, edges, faces): one edge per unordered vertex pair *)
(* (sorted pair, in order of first use), loops stored face after face.     *)
(***************************************************************************)
Vector(x, y, z) == PyList(<<PyFloat(x), PyFloat(y), PyFloat(z)>>)

SortedPair(a, b) == IF a <= b THEN <<a, b>> ELSE <<b, a>>

\* polygon.edge_keys: the sorted vertex pair of every side, wrap-around included
EdgeKeys(face) ==
  [i \in 1..Len(face) |-> SortedPair(face[i], face[(i % Len(face)) + 1])]

\* one edge per unordered pair: the first pair of each key is kept as given
RECURSIVE Dedup(_)
Dedup(s) ==
  IF s = <<>> THEN <<>>
  ELSE LET front == Dedup(SubSeq(s, 1, Len(s) - 1))
           x == s[Len(s)]
       IN IF \E i \in 1..Len(front) : SortedPair(front[i][1], front[i][2]) = SortedPair(x[1], x[2])
            THEN front ELSE Append(front, x)

\* 0-based position of x in s
IndexOf(s, x) == (CHOOSE i \in 1..Len(s) : s[i] = x) - 1

\* 0-based position of the edge with the given key
EdgeIndexOf(edges, key) ==
  (CHOOSE i \in 1..Len(edges) : SortedPair(edges[i][1], edges[i][2]) = key) - 1

RECURSIVE SumLen(_)
SumLen(ss) == IF ss = <<>> THEN 0 ELSE Len(Head(ss)) + SumLen(Tail(ss))

from_pydata(positions, edges, faces) ==
  LET keys == Dedup(edges \o Flatten([f \in 1..Len(faces) |-> EdgeKeys(faces[f])]))
  IN [vertices |-> [i \in 1..Len(positions) |-> [co |-> positions[i]]],
      edges |-> [i \in 1..Len(keys) |-> [vertices |-> keys[i], crease |-> PyFloat(0)]],
      polygons |-> [f \in 1..Len(faces) |->
                      [loop_start |-> SumLen(SubSeq(faces, 1, f - 1)),
                       loop_total |-> Len(faces[f]),
                       edge_keys |-> EdgeKeys(faces[f]),
                       normal |-> Vector(0, 0, 2)]],
      loops |-> Flatten([f \in 1..Len(faces) |->
                  [i \in 1..Len(faces[f]) |->
                     [vertex_index |-> faces[f][i],
                      edge_index |-> EdgeIndexOf(keys, EdgeKeys(faces[f])[i])]]])]

(***************************************************************************)
(* Topology extractor                                                      *)
(***************************************************************************)
\* the edge ids appended to the first endpoint only
VertexEdges_FirstEndpoint(edges, v) ==
  Flatten([i \in 1..Len(edges) |->
             IF edges[i].vertices[1] = v THEN <<edges[i].id>> ELSE <<>>])

\* the edge ids appended to vertex v: "vertices[v1].edges.append(id);
\* vertices[v2].edges.append(id)" over the edges in order
VertexEdges(edges, v) ==
  Flatten([i \in 1..Len(edges) |->
             (IF edges[i].vertices[1] = v THEN <<edges[i].id>> ELSE <<>>)
             \o (IF edges[i].vertices[2] = v THEN <<edges[i].id>> ELSE <<>>)])

\* edge_map[sorted pair] = id of the last edge with that key
EdgeMapHas(edges, key) ==
  \E i \in 1..Len(edges) : SortedPair(edges[i].vertices[1], edges[i].vertices[2]) = key

EdgeMap(edges, key) ==
  LET i == CHOOSE i \in 1..Len(edges) :
             /\ SortedPair(edges[i].vertices[1], edges[i].vertices[2]) = key
             /\ \A j \in (i + 1)..Len(edges) :
                  SortedPair(edges[j].vertices[1], edges[j].vertices[2]) # key
  IN edges[i].id

\* only the first face of an edge is recorded
EdgeFaces_FirstFace(edges, faces, e) ==
  LET all == Flatten([f \in 1..Len(faces) |->
               Flatten([k \in 1..Len(faces[f].edges) |->
                 IF EdgeMapHas(edges, faces[f].edges[k]) /\ EdgeMap(edges, faces[f].edges[k]) = e
                   THEN <<faces[f].id>> ELSE <<>>])])
  IN IF all = <<>> THEN <<>> ELSE <<Head(all)>>

\* the face ids appended to edge e, over the faces and their edge keys in order
EdgeFaces(edges, faces, e) ==
  Flatten([f \in 1..Len(faces) |->
    Flatten([k \in 1..Len(faces[f].edges) |->
      IF EdgeMapHas(edges, faces[f].edges[k]) /\ EdgeMap(edges, faces[f].edges[k]) = e
        THEN <<faces[f].id>> ELSE <<>>])])

_build_adjacency(bmesh_data) ==
  [bmesh_data EXCEPT
     !.vertices = [v \in 1..Len(bmesh_data.vertices) |->
                     [bmesh_data.vertices[v] EXCEPT
                        !.edges = VertexEdges(bmesh_data.edges, v - 1)]],
     !.edges = [e \in 1..Len(bmesh_data.edges) |->
                  [bmesh_data.edges[e] EXCEPT
                     !.faces = EdgeFaces(bmesh_data.edges, bmesh_data.faces,
                                         bmesh_data.edges[e].id)]]]

\* edges_crease is recorded only when some edge has crease > 0.0
_extract_subdivision_data(bmesh_data, mesh) ==
  LET edge_creases == [i \in 1..Len(mesh.edges) |-> mesh.edges[i].crease]
      has_edge_creases == \E i \in 1..Len(edge_creases) : Halves(edge_creases[i]) > 0
  IN IF has_edge_creases THEN bmesh_data @@ [edges_crease |-> edge_creases]
     ELSE bmesh_data

\* the ids of the loops on edge e, in loop order
LoopsOnEdge(loops, e) ==
  SelectSeq([i \in 1..Len(loops) |-> loops[i].id],
            LAMBDA id : loops[id + 1].edge = e)

\* the loops of every edge linked into one cycle, each loop to its neighbours
_calculate_radial_loops(bmesh_data) ==
  [bmesh_data EXCEPT
     !.loops = [l \in 1..Len(bmesh_data.loops) |->
        LET cycle == LoopsOnEdge(bmesh_data.loops, bmesh_data.loops[l].edge)
            n == Len(cycle)
            pos == IndexOf(cycle, bmesh_data.loops[l].id)
        IN [bmesh_data.loops[l] EXCEPT
              !.radial_next = cycle[((pos + 1) % n) + 1],
              !.radial_prev = cycle[((pos + n - 1) % n) + 1]]]]

\* the next loop without the wrap to the first loop of the face
LoopNext_NoWrap(polygon, loop_index_in_face) ==
  polygon.loop_start + loop_index_in_face + 1

\* "next": polygon.loop_start + ((loop_index_in_face + 1) % polygon.loop_total)
LoopNext(polygon, loop_index_in_face) ==
  polygon.loop_start + ((loop_index_in_face + 1) % polygon.loop_total)

\* "prev": polygon.loop_start + ((loop_index_in_face - 1) % polygon.loop_total),
\* Python's % giving a result in 0..loop_total-1
LoopPrev(polygon, loop_index_in_face) ==
  polygon.loop_start + ((loop_index_in_face + polygon.loop_total - 1) % polygon.loop_total)

\* number of loops created before polygon f (1-based): the running loop_index
LoopIndexAt(mesh, f) == SumLen([g \in 1..(f - 1) |-> [j \in 1..mesh.polygons[g].loop_total |-> g]])

analyze_mesh_topology(mesh) ==
  LET vertices == [i \in 1..Len(mesh.vertices) |->
                     [id |-> i - 1, position |-> mesh.vertices[i].co, edges |-> <<>>]]
      edges == [i \in 1..Len(mesh.edges) |->
                  [id |-> i - 1, vertices |-> mesh.edges[i].vertices, faces |-> <<>>]]
      loop_data(f, j) ==
        LET polygon == mesh.polygons[f]
            loop == mesh.loops[polygon.loop_start + j + 1]
            loop_index == LoopIndexAt(mesh, f) + j
        IN [id |-> loop_index,
            vertex |-> loop.vertex_index,
            edge |-> loop.edge_index,
            face |-> f - 1,
            next |-> LoopNext(polygon, j),
            prev |-> LoopPrev(polygon, j),
            radial_next |-> loop_index,
            radial_prev |-> loop_index]
      loops == Flatten([f \in 1..Len(mesh.polygons) |->
                 [j \in 1..mesh.polygons[f].loop_total |-> loop_data(f, j - 1)]])
      faces == [f \in 1..Len(mesh.polygons) |->
                  LET polygon == mesh.polygons[f] IN
                  [id |-> f - 1,
                   vertices |-> [j \in 1..polygon.loop_total |->
                                   mesh.loops[polygon.loop_start + j].vertex_index],
                   edges |-> polygon.edge_keys,
                   loops |-> [j \in 1..polygon.loop_total |-> LoopIndexAt(mesh, f) + j - 1],
                   normal |-> polygon.normal]]
      extracted == [vertices |-> vertices, edges |-> edges, loops |-> loops, faces |-> faces]
  IN Ok(_calculate_radial_loops(
          _extract_subdivision_data(_build_adjacency(extracted), mesh)))

(***************************************************************************)
(* Topology encoder.  An absent dict key is an absent record field; {} is  *)
(* the record without fields.  An operation under way is held as the arena *)
(* it has written so far (a), the exception it has raised (exc) and the    *)
(* dict it has built so far (ret); a step after an exception does nothing. *)
(***************************************************************************)
EmptyDict == [x \in {} |-> 0]

Start(a) == [a |-> a, exc |-> "none", ret |-> EmptyDict]

\* dict[key] = the value the call r returned; an exception of r ends the operation
Put(s, key, r) ==
  [a |-> r.a, exc |-> r.exc,
   ret |-> IF r.exc = "none" THEN (key :> r.ret) @@ s.ret ELSE s.ret]

\* dict[key] = value
PutValue(s, key, value) == [a |-> s.a, exc |-> s.exc, ret |-> (key :> value) @@ s.ret]

\* create_accessor(view, component_type, count, accessor_type) on a view just created
ViewAccessor(bv, component_type, count, accessor_type) ==
  create_accessor(bv.a, bv.ret, component_type, count, accessor_type, <<>>, <<>>)

\* pack_uint_array, create_buffer_view, create_accessor(view, 5125, len, "SCALAR")
UIntArrayAccessor(a, values) ==
  IF pack_uint_array(values).exc # "none" THEN Fail(a, pack_uint_array(values).exc)
  ELSE ViewAccessor(create_buffer_view(a, pack_uint_array(values).val),
                    5125, Len(values), "SCALAR")

\* pack_vector3_array, create_buffer_view, create_accessor(view, 5126, len, "VEC3")
Vector3ArrayAccessor(a, vectors) ==
  ViewAccessor(create_buffer_view(a, pack_vector3_array(vectors).val),
               5126, Len(vectors), "VEC3")

\* "if values: section[key] = accessor": no accessor for an empty array
OptionalArray(s, key, values) ==
  IF s.exc # "none" \/ values = <<>> THEN s
  ELSE Put(s, key, UIntArrayAccessor(s.a, values))

\* section.setdefault("attributes", {})[name] = accessor
PutAttribute(s, name, r) ==
  [a |-> r.a, exc |-> r.exc,
   ret |-> IF r.exc = "none" THEN [attributes |-> (name :> r.ret)] @@ s.ret ELSE s.ret]

\* "if key in bmesh_data": create_sparse_accessor(bmesh_data[key], component_type, "SCALAR")
Attribute(s, bmesh_data, key, name, component_type) ==
  IF s.exc # "none" \/ key \notin DOMAIN bmesh_data THEN s
  ELSE PutAttribute(s, name, create_sparse_accessor(s.a, bmesh_data[key], component_type, "SCALAR"))

VerticesPositions(s, bmesh_data) ==
  PutValue(Put(s, "positions",
               Vector3ArrayAccessor(s.a, [i \in 1..Len(bmesh_data.vertices) |->
                                            bmesh_data.vertices[i].position])),
           "count", Len(bmesh_data.vertices))

ExportVertices(a, bmesh_data) ==
  Attribute(
    OptionalArray(VerticesPositions(Start(a), bmesh_data), "edges",
                  Ints(Flatten([i \in 1..Len(bmesh_data.vertices) |->
                                  bmesh_data.vertices[i].edges]))),
    bmesh_data, "vertices_crease", "CREASE", 5126)

EdgesVertices(s, bmesh_data) ==
  PutValue(Put(s, "vertices",
               UIntArrayAccessor(s.a, Ints(Flatten([i \in 1..Len(bmesh_data.edges) |->
                                                      bmesh_data.edges[i].vertices])))),
           "count", Len(bmesh_data.edges))

ExportEdges(a, bmesh_data) ==
  Attribute(
    OptionalArray(EdgesVertices(Start(a), bmesh_data), "faces",
                  Ints(Flatten([i \in 1..Len(bmesh_data.edges) |->
                                  bmesh_data.edges[i].faces]))),
    bmesh_data, "edges_crease", "CREASE", 5126)

\* list.append of the value the call r returned
AppendReturned(s, r) ==
  [a |-> r.a, exc |-> r.exc, ret |-> IF r.exc = "none" THEN Append(s.ret, r.ret) ELSE s.ret]

\* _create_optimized_accessor(array, 5125, "SCALAR") on each array in turn;
\* ret is the sequence of the accessor indices
RECURSIVE OptimizedAccessors(_, _)
OptimizedAccessors(s, arrays) ==
  IF arrays = <<>> \/ s.exc # "none" THEN s
  ELSE OptimizedAccessors(
         AppendReturned(s, _create_optimized_accessor(s.a, Head(arrays), 5125, "SCALAR")),
         Tail(arrays))

\* [loop[key] for loop in bmesh_data["loops"]]
Column(bmesh_data, key) ==
  Ints([i \in 1..Len(bmesh_data.loops) |-> bmesh_data.loops[i][key]])

LoopsData(loop_count, accessors) ==
  IF accessors.exc # "none" THEN accessors
  ELSE Done(accessors.a,
            [count |-> loop_count,
             topology_vertex |-> accessors.ret[1],
             topology_edge |-> accessors.ret[2],
             topology_face |-> accessors.ret[3],
             topology_next |-> accessors.ret[4],
             topology_prev |-> accessors.ret[5],
             topology_radial_next |-> accessors.ret[6],
             topology_radial_prev |-> accessors.ret[7]])

\* the meshes modelled carry no UV and no colour layer, so that the
\* loop_texcoord_0 / loop_texcoord_1 / loop_color_0 keys are never present
ExportLoops(a, bmesh_data) ==
  LoopsData(Len(bmesh_data.loops),
            OptimizedAccessors([a |-> a, exc |-> "none", ret |-> <<>>],
              << Column(bmesh_data, "vertex"), Column(bmesh_data, "edge"),
                 Column(bmesh_data, "face"), Column(bmesh_data, "next"),
                 Column(bmesh_data, "prev"), Column(bmesh_data, "radial_next"),
                 Column(bmesh_data, "radial_prev") >>))

\* face["edges"] holds polygon.edge_keys: (v1, v2) tuples
EdgeKeyTuples(keys) == [i \in 1..Len(keys) |-> PyTuple(Ints(keys[i]))]

\* the face_offsets rows [vertices_start, edges_start, loops_start]
FaceOffsets(faces) ==
  [f \in 1..Len(faces) |->
     << SumLen([g \in 1..(f - 1) |-> faces[g].vertices]),
        SumLen([g \in 1..(f - 1) |-> faces[g].edges]),
        SumLen([g \in 1..(f - 1) |-> faces[g].loops]) >>]

\* struct.pack("<III", *offset) of every row
OffsetsData(face_offsets) ==
  Flatten([f \in 1..Len(face_offsets) |->
             LE32(face_offsets[f][1]) \o LE32(face_offsets[f][2]) \o LE32(face_offsets[f][3])])

\* "if normals:"; the modelled normals are finite
FacesNormals(s, bmesh_data) ==
  IF s.exc # "none" \/ bmesh_data.faces = <<>> THEN s
  ELSE Put(s, "normals",
           Vector3ArrayAccessor(s.a, [f \in 1..Len(bmesh_data.faces) |->
                                        bmesh_data.faces[f].normal]))

FacesOffsets(s, bmesh_data) ==
  IF s.exc # "none" THEN s
  ELSE PutValue(Put(s, "offsets",
                    ViewAccessor(create_buffer_view(s.a, OffsetsData(FaceOffsets(bmesh_data.faces))),
                                 5125, Len(bmesh_data.faces), "VEC3")),
                "count", Len(bmesh_data.faces))

ExportFaces(a, bmesh_data) ==
  Attribute(
    FacesOffsets(
      FacesNormals(
        OptionalArray(
          OptionalArray(
            OptionalArray(Start(a), "vertices",
                          Ints(Flatten([f \in 1..Len(bmesh_data.faces) |->
                                          bmesh_data.faces[f].vertices]))),
            "edges",
            Flatten([f \in 1..Len(bmesh_data.faces) |->
                       EdgeKeyTuples(bmesh_data.faces[f].edges)])),
          "loops",
          Ints(Flatten([f \in 1..Len(bmesh_data.faces) |-> bmesh_data.faces[f].loops]))),
        bmesh_data),
      bmesh_data),
    bmesh_data, "faces_holes", "HOLES", 5121)

ExportSection(key, a, bmesh_data) ==
  CASE key = "vertices" -> ExportVertices(a, bmesh_data)
    [] key = "edges" -> ExportEdges(a, bmesh_data)
    [] key = "loops" -> ExportLoops(a, bmesh_data)
    [] key = "faces" -> ExportFaces(a, bmesh_data)

\* "if bmesh_data[key]:" a section is written only for a non-empty record set
Section(s, bmesh_data, key, exported) ==
  IF s.exc # "none" \/ bmesh_data[key] = <<>> THEN s ELSE Put(s, key, exported)

RECURSIVE ExportSections(_, _, _)
ExportSections(s, bmesh_data, keys) ==
  IF keys = <<>> THEN s
  ELSE ExportSections(
         Section(s, bmesh_data, Head(keys), ExportSection(Head(keys), s.a, bmesh_data)),
         bmesh_data, Tail(keys))

export_bmesh_topology(a, bmesh_data) ==
  ExportSections(Start(a), bmesh_data, << "vertices", "edges", "loops", "faces" >>)

\* Python None
None == [none |-> TRUE]

\* the two calls of the body, the second only if the first returned
AnalyzeAndExport(a, bmesh_data) ==
  IF bmesh_data.exc # "none" THEN Fail(a, bmesh_data.exc)
  ELSE export_bmesh_topology(a, bmesh_data.val)

\* the body without its handler: the exception leaves the call
TryExcept_Reraise(r) ==
  [a |-> r.a, exc |-> r.exc, caught |-> "none",
   ret |-> IF r.exc # "none" THEN None ELSE r.ret]

\* try: ... return extension_data / except Exception: return None.
\* exc is the exception that leaves the call, caught the one caught inside.
TryExcept(r) ==
  [a |-> r.a, exc |-> "none", caught |-> r.exc,
   ret |-> IF r.exc # "none" THEN None ELSE r.ret]

export_mesh(a, mesh) == TryExcept(AnalyzeAndExport(a, analyze_mesh_topology(mesh)))

(***************************************************************************)
(* Topology decoder.  The importer reads the document a: its accessors,    *)
(* its buffer views and its one buffer.                                    *)
(***************************************************************************)
\* int(x) of a number; floats truncate
IntOf(v) == IF v.k = "int" THEN v.n ELSE v.n \div 2

\* one component of mathutils.Vector(...): a float
FloatOf(v) == IF v.k = "int" THEN PyFloat(2 * v.n) ELSE v

IsList(v) == v.k = "list"

\* Vector((pos[0], pos[1], pos[2])) if entry i (1-based) of the array read is
\* a list of at least 3 components, else the default
VectorAt(array, i, default) ==
  IF i <= Len(array) /\ IsList(array[i]) /\ Len(array[i].c) >= 3
    THEN PyList(<<FloatOf(array[i].c[1]), FloatOf(array[i].c[2]), FloatOf(array[i].c[3])>>)
    ELSE default

\* range(n) as the 1-based positions 1..n (empty for n <= 0)
Range(n) == 1..n

Vertices(vertex_count, positions) ==
  IF positions.exc # "none" THEN positions
  ELSE Ok([i \in Range(vertex_count) |->
             [id |-> i - 1,
              position |-> VectorAt(positions.val, i, Vector(0, 0, 0)),
              edges |-> <<>>]])

ReadVertices(a, vertices_data) ==
  IF "positions" \notin DOMAIN vertices_data THEN Ok(<<>>)
  ELSE Vertices(vertices_data.count, read_sparse_accessor(a, vertices_data.positions))

\* entry i of the array read is a list of at least 2 components
IsPair(array, i) == i <= Len(array) /\ IsList(array[i]) /\ Len(array[i].c) >= 2

Edges(edge_count, edge_vertices) ==
  IF edge_vertices.exc # "none" THEN edge_vertices
  ELSE Ok([i \in Range(edge_count) |->
             [id |-> i - 1,
              vertices |-> IF IsPair(edge_vertices.val, i)
                             THEN <<IntOf(edge_vertices.val[i].c[1]),
                                    IntOf(edge_vertices.val[i].c[2])>>
                             ELSE <<0, 0>>,
              faces |-> <<>>]])

ReadEdges(a, edges_data) ==
  IF "vertices" \notin DOMAIN edges_data THEN Ok(<<>>)
  ELSE Edges(edges_data.count, read_sparse_accessor(a, edges_data.vertices))

\* arrays[key] = the array the call r read; an exception of r ends the reading
SetArray(s, key, r) == IF r.exc # "none" THEN r ELSE Ok((key :> r.val) @@ s.val)

\* "if key in section: array = read_sparse_accessor(section[key])", else []
ReadOptional(a, section, key) ==
  IF key \in DOMAIN section THEN read_sparse_accessor(a, section[key]) ELSE Ok(<<>>)

RECURSIVE ReadArrays(_, _, _, _)
ReadArrays(s, a, section, keys) ==
  IF keys = <<>> \/ s.exc # "none" THEN s
  ELSE ReadArrays(SetArray(s, Head(keys), ReadOptional(a, section, Head(keys))),
                  a, section, Tail(keys))

LoopKeys ==
  << "topology_vertex", "topology_edge", "topology_face", "topology_next",
     "topology_prev", "topology_radial_next", "topology_radial_prev" >>

\* every missing entry read as 0
LoopField_Zero(array, i, default) == IF i <= Len(array) THEN IntOf(array[i]) ELSE 0

\* every missing entry read as the loop's own index
LoopField_Index(array, i, default) == IF i <= Len(array) THEN IntOf(array[i]) ELSE i - 1

\* int(array[i]) if i < len(array) else default, for entry i (1-based)
LoopField(array, i, default) == IF i <= Len(array) THEN IntOf(array[i]) ELSE default

Loops(loop_count, topology) ==
  IF topology.exc # "none" THEN topology
  ELSE IF \E i \in Range(loop_count) : \E k \in 1..Len(LoopKeys) :
            i <= Len(topology.val[LoopKeys[k]]) /\ ~IsNum(topology.val[LoopKeys[k]][i])
    THEN Raise("TypeError")
  ELSE Ok([i \in Range(loop_count) |->
             [id |-> i - 1,
              vertex |-> LoopField(topology.val["topology_vertex"], i, 0),
              edge |-> LoopField(topology.val["topology_edge"], i, 0),
              face |-> LoopField(topology.val["topology_face"], i, 0),
              next |-> LoopField(topology.val["topology_next"], i, i - 1),
              prev |-> LoopField(topology.val["topology_prev"], i, i - 1),
              radial_next |-> LoopField(topology.val["topology_radial_next"], i, i - 1),
              radial_prev |-> LoopField(topology.val["topology_radial_prev"], i, i - 1)]])

ReadLoops(a, loops_data) ==
  Loops(loops_data.count, ReadArrays(Ok(EmptyDict), a, loops_data, LoopKeys))

\* range(lo, hi + 1): the slice takes the first element of the next face too
SliceInts_Inclusive(arr, lo, hi) ==
  LET top == IF hi + 1 < Len(arr) THEN hi + 1 ELSE Len(arr)
      n == IF top > lo THEN top - lo ELSE 0
  IN Ok([k \in 1..n |-> IntOf(PyIndex(arr, lo + k - 1))])

\* [int(arr[j]) for j in range(lo, hi) if j < len(arr)]
SliceInts(arr, lo, hi) ==
  LET top == IF hi < Len(arr) THEN hi ELSE Len(arr)
      n == IF top > lo THEN top - lo ELSE 0
  IN IF \E k \in 1..n : ~PyIndexOk(arr, lo + k - 1) THEN Raise("IndexError")
     ELSE IF \E k \in 1..n : ~IsNum(PyIndex(arr, lo + k - 1)) THEN Raise("TypeError")
     ELSE Ok([k \in 1..n |-> IntOf(PyIndex(arr, lo + k - 1))])

EmptyFace(i) ==
  [id |-> i, vertices |-> <<>>, edges |-> <<>>, loops |-> <<>>, normal |-> Vector(0, 0, 2)]

\* the face record from its three slices
FaceOf(i, vertices, edges, loops, normal) ==
  IF vertices.exc # "none" THEN vertices
  ELSE IF edges.exc # "none" THEN edges
  ELSE IF loops.exc # "none" THEN loops
  ELSE Ok([id |-> i, vertices |-> vertices.val, edges |-> edges.val,
           loops |-> loops.val, normal |-> normal])

\* "... if face_loops else list(range(loops_start, loops_start + len(vertices)))"
FaceLoops(face_loops, loops_start, loops_end, vertices) ==
  IF face_loops # <<>> THEN SliceInts(face_loops, loops_start, loops_end)
  ELSE IF vertices.exc # "none" THEN vertices
  ELSE Ok([k \in 1..Len(vertices.val) |-> loops_start + k - 1])

\* face i (0-based) from its offsets row and the following row (the row
\* itself when face i is the last one, where the following row is not read)
FaceSlices(i, is_last, row, following, arrays) ==
  LET vertex_start == IF Len(row.c) > 0 THEN IntOf(row.c[1]) ELSE 0
      edges_start == IF Len(row.c) > 1 THEN IntOf(row.c[2]) ELSE 0
      loops_start == IF Len(row.c) > 2 THEN IntOf(row.c[3]) ELSE vertex_start
      vertex_end == IF is_last THEN Len(arrays["vertices"]) ELSE IntOf(following.c[1])
      edges_end == IF is_last \/ Len(following.c) <= 1
                     THEN Len(arrays["edges"]) ELSE IntOf(following.c[2])
      loops_end == IF is_last \/ Len(following.c) <= 2
                     THEN Len(arrays["loops"]) ELSE IntOf(following.c[3])
  IN FaceOf(i,
            SliceInts(arrays["vertices"], vertex_start, vertex_end),
            SliceInts(arrays["edges"], edges_start, edges_end),
            FaceLoops(arrays["loops"], loops_start, loops_end,
                      SliceInts(arrays["vertices"], vertex_start, vertex_end)),
            VectorAt(arrays["normals"], i + 1, Vector(0, 0, 2)))

\* the body of "for i in range(face_count)" for face i (0-based)
FaceAt(i, face_count, face_offsets, arrays) ==
  IF ~(i < Len(face_offsets)) THEN Ok(EmptyFace(i))
  ELSE IF ~IsList(face_offsets[i + 1]) THEN Raise("TypeError")
  ELSE IF i = face_count - 1
    THEN FaceSlices(i, TRUE, face_offsets[i + 1], face_offsets[i + 1], arrays)
  ELSE IF ~(i + 1 < Len(face_offsets)) THEN Raise("IndexError")
  ELSE IF ~IsList(face_offsets[i + 2]) THEN Raise("TypeError")
  ELSE FaceSlices(i, FALSE, face_offsets[i + 1], face_offsets[i + 2], arrays)

FaceKeys == << "vertices", "edges", "loops", "normals" >>

\* The "else" after the face loop belongs to the "for" statement: it runs
\* when the loop ends, and appends face_count more faces without vertices.
FaceList(face_count, faces) ==
  IF \E i \in Range(face_count) : faces[i].exc # "none"
    THEN Raise(faces[CHOOSE i \in Range(face_count) :
                       /\ faces[i].exc # "none"
                       /\ \A j \in 1..(i - 1) : faces[j].exc = "none"].exc)
    ELSE Ok([i \in Range(face_count) |-> faces[i].val]
            \o [i \in Range(face_count) |-> EmptyFace(i - 1)])

Faces(face_count, arrays, face_offsets) ==
  IF face_offsets.exc # "none" THEN face_offsets
  ELSE FaceList(face_count,
                [i \in Range(face_count) |->
                   FaceAt(i - 1, face_count, face_offsets.val, arrays)])

\* without "offsets" neither the loop nor its else clause runs
FacesFromArrays(a, faces_data, arrays) ==
  IF arrays.exc # "none" THEN arrays
  ELSE IF "offsets" \notin DOMAIN faces_data THEN Ok(<<>>)
  ELSE Faces(faces_data.count, arrays.val, read_sparse_accessor(a, faces_data.offsets))

ReadFaces(a, faces_data) ==
  FacesFromArrays(a, faces_data, ReadArrays(Ok(EmptyDict), a, faces_data, FaceKeys))

\* "if key in extension_data: section = extension_data[key]; count = section['count']; ..."
ReadSection(key, a, extension_data) ==
  IF key \notin DOMAIN extension_data THEN Ok(<<>>)
  ELSE IF "count" \notin DOMAIN extension_data[key] THEN Raise("KeyError")
  ELSE CASE key = "vertices" -> ReadVertices(a, extension_data[key])
         [] key = "edges" -> ReadEdges(a, extension_data[key])
         [] key = "loops" -> ReadLoops(a, extension_data[key])
         [] key = "faces" -> ReadFaces(a, extension_data[key])

\* bmesh_data[key] = the records the call r rebuilt
SetSection(s, key, r) == IF r.exc # "none" THEN r ELSE Ok([s.val EXCEPT ![key] = r.val])

RECURSIVE ReadSections(_, _, _, _)
ReadSections(s, a, extension_data, keys) ==
  IF keys = <<>> \/ s.exc # "none" THEN s
  ELSE ReadSections(SetSection(s, Head(keys), ReadSection(Head(keys), a, extension_data)),
                    a, extension_data, Tail(keys))

EmptyBmesh == [vertices |-> <<>>, edges |-> <<>>, loops |-> <<>>, faces |-> <<>>]

reconstruct_bmesh_topology(a, extension_data) ==
  ReadSections(Ok(EmptyBmesh), a, extension_data, << "vertices", "edges", "loops", "faces" >>)

\* bpy.data.meshes.new and Mesh.from_pydata belong to the host: the host
\* builds the mesh (host_ok) or raises
create_blender_mesh_from_bmesh(bmesh_data, host_ok) ==
  LET vertices == [i \in 1..Len(bmesh_data.vertices) |-> bmesh_data.vertices[i].position]
      with_vertices == SelectSeq(bmesh_data.faces, LAMBDA face : Len(face.vertices) >= 3)
      faces == [i \in 1..Len(with_vertices) |-> with_vertices[i].vertices]
  IN IF host_ok THEN Ok(from_pydata(vertices, <<>>, faces)) ELSE Raise("RuntimeError")

\* primitive.get("extensions", {}).get("EXT_mesh_bmesh")
HasExtension(primitive) ==
  /\ "extensions" \in DOMAIN primitive
  /\ "EXT_mesh_bmesh" \in DOMAIN primitive.extensions

\* the outcome of import_primitive: the exception that left the call (exc),
\* the one caught inside it (caught), and the value returned
Returned(caught, ret) == [exc |-> "none", caught |-> caught, ret |-> ret]

\* "return mesh", or None from the handler
ReturnMesh(mesh) ==
  IF mesh.exc # "none" THEN Returned(mesh.exc, None) ELSE Returned("none", mesh.val)

\* the try block: the mesh is built from the topology if that was rebuilt
BuildMesh(bmesh_data, host_ok) ==
  IF bmesh_data.exc # "none" THEN Returned(bmesh_data.exc, None)
  ELSE ReturnMesh(create_blender_mesh_from_bmesh(bmesh_data.val, host_ok))

import_primitive(a, primitive, host_ok) ==
  IF ~HasExtension(primitive) \/ primitive.extensions.EXT_mesh_bmesh = EmptyDict
    THEN Returned("none", None)
    ELSE BuildMesh(reconstruct_bmesh_topology(a, primitive.extensions.EXT_mesh_bmesh), host_ok)

(***************************************************************************)
(* The exporter as a state machine: one action per public operation of the *)
(* buffer / accessor layer.  last records the latest call: its arguments,  *)
(* the arena before it, and its outcome.                                   *)
(***************************************************************************)
MaxCalls == 2

EmptyArena == [buf |-> <<>>, views |-> <<>>, accs |-> <<>>]

\* buffers handed to __init__: empty, or holding bytes already (unaligned)
InitBuffers == {<<>>, <<9>>}

BufferData == {<<>>, <<7>>, <<1, 2, 3, 4, 5>>}

\* n elements, the last k of them 1 and the others 0
Big(n, k) == [i \in 1..n |-> PyInt(IF i > n - k THEN 1 ELSE 0)]

Arr(values, component_type, accessor_type) ==
  [values |-> values, component_type |-> component_type, accessor_type |-> accessor_type]

SmallArrays ==
  { Arr(Ints(ns), 5125, "SCALAR") :
      ns \in {<<>>, <<0>>, <<2>>, <<0, 0>>, <<0, 2>>, <<2, 0>>, <<2, 1>>} }
  \cup { Arr(Ints(<<1, 2>>), 5121, "SCALAR"),
         Arr(<<PyFloat(0), PyFloat(1)>>, 5126, "SCALAR"),
         Arr(<<PyList(<<PyInt(0), PyInt(0)>>)>>, 5126, "VEC2"),
         Arr(<<PyList(<<PyFloat(0), PyFloat(0)>>), PyList(<<PyFloat(1), PyFloat(2)>>)>>,
             5126, "VEC2"),
         Arr(<<PyTuple(<<PyFloat(0), PyFloat(1)>>)>>, 5126, "VEC2") }

\* arrays around the size and density at which the chooser switches
BigArrays ==
  { Arr(Big(SparseThreshold, 29), 5125, "SCALAR"),
    Arr(Big(SparseThreshold + 1, 30), 5125, "SCALAR"),
    Arr(Big(SparseThreshold + 1, 31), 5125, "SCALAR"),
    Arr(Big(SparseThreshold + 1, 0), 5125, "SCALAR") }

SparseInputs ==
  SmallArrays \cup { Arr(Big(SparseThreshold + 1, 30), 5125, "SCALAR"),
                     Arr(Big(SparseThreshold + 1, 0), 5125, "SCALAR") }

DenseInputs == SmallArrays

OptimizedInputs ==
  BigArrays \cup { Arr(Ints(ns), 5125, "SCALAR") : ns \in {<<>>, <<0, 0>>, <<0, 2>>} }

NoCall ==
  [op |-> "none", values |-> <<>>, component_type |-> 0, accessor_type |-> "",
   data |-> <<>>, index |-> 0, pre |-> EmptyArena, exc |-> "none", ret |-> 0, out |-> <<>>]

Init ==
  /\ arena \in { [EmptyArena EXCEPT !.buf = b] : b \in InitBuffers }
  /\ last = NoCall
  /\ calls = 0
  /\ json_dict = EmptyDict
  /\ workers = NoWorkers

\* a call that writes to the arena
Wrote(op, in, r) ==
  /\ arena' = r.a
  /\ last' = [NoCall EXCEPT !.op = op, !.values = in.values,
                            !.component_type = in.component_type,
                            !.accessor_type = in.accessor_type,
                            !.pre = arena, !.exc = r.exc, !.ret = r.ret]
  /\ calls' = calls + 1
  /\ UNCHANGED <<json_dict, workers>>

\* a call that only reads
Read(op, index, r) ==
  /\ arena' = arena
  /\ last' = [NoCall EXCEPT !.op = op, !.index = index, !.pre = arena,
                            !.exc = r.exc, !.out = r.val]
  /\ calls' = calls + 1
  /\ UNCHANGED <<json_dict, workers>>

CreateBufferView ==
  /\ calls < MaxCalls
  /\ \E data \in BufferData :
       LET r == create_buffer_view(arena, data) IN
       /\ arena' = r.a
       /\ last' = [NoCall EXCEPT !.op = "create_buffer_view", !.data = data,
                                 !.pre = arena, !.exc = r.exc, !.ret = r.ret]
       /\ calls' = calls + 1
       /\ UNCHANGED <<json_dict, workers>>

\* create_accessor over a view index returned earlier
CreateAccessor ==
  /\ calls < MaxCalls
  /\ \E bv \in 0..(Len(arena.views) - 1) :
       LET in == Arr(<<>>, 5125, "SCALAR")
           count == arena.views[bv + 1].byteLength \div 4
       IN Wrote("create_accessor", [in EXCEPT !.values = <<PyInt(bv), PyInt(count)>>],
                create_accessor(arena, bv, 5125, count, "SCALAR", <<>>, <<>>))

CreateSparseAccessor ==
  /\ calls < MaxCalls
  /\ \E in \in SparseInputs :
       Wrote("create_sparse_accessor", in,
             create_sparse_accessor(arena, in.values, in.component_type, in.accessor_type))

CreateDenseAccessor ==
  /\ calls < MaxCalls
  /\ \E in \in DenseInputs :
       Wrote("_create_dense_accessor", in,
             _create_dense_accessor(arena, in.values, in.component_type, in.accessor_type))

CreateOptimizedAccessor ==
  /\ calls < MaxCalls
  /\ \E in \in OptimizedInputs :
       Wrote("_create_optimized_accessor", in,
             _create_optimized_accessor(arena, in.values, in.component_type, in.accessor_type))

\* indices handed to the readers: negative, in range, and past the end
ReadIndices(s) == (0 - 1)..Len(s)

ReadBufferView ==
  /\ calls < MaxCalls
  /\ \E i \in ReadIndices(arena.views) :
       Read("read_buffer_view", i, read_buffer_view(arena, i))

ReadAccessorData ==
  /\ calls < MaxCalls
  /\ \E i \in ReadIndices(arena.accs) :
       Read("read_accessor_data", i, read_accessor_data(arena, i))

ReadSparseAccessor ==
  /\ calls < MaxCalls
  /\ \E i \in ReadIndices(arena.accs) :
       Read("read_sparse_accessor", i, read_sparse_accessor(arena, i))

Next ==
  \/ CreateBufferView
  \/ CreateAccessor
  \/ CreateSparseAccessor
  \/ CreateDenseAccessor
  \/ CreateOptimizedAccessor
  \/ ReadBufferView
  \/ ReadAccessorData
  \/ ReadSparseAccessor

Spec == Init /\ [][Next]_vars

(***************************************************************************)
(* Properties of the buffer / accessor layer                               *)
(***************************************************************************)
LastAccessor == arena.accs[Len(arena.accs)]

\* the view with Python index i
ViewBytes(i) ==
  Slice(arena.buf, arena.views[i + 1].byteOffset,
        arena.views[i + 1].byteOffset + arena.views[i + 1].byteLength)

\* the k-th (0-based) little-endian 32-bit word of a byte string
WordAt(bytes, k) == Word(bytes, 4 * k)

\* C2 (as claimed): whenever create_sparse_accessor has returned an accessor
\* index, read_sparse_accessor of that index over the same arena returns a
\* list equal to the values passed in (same length, same elements).
C2_SparseEquivalence ==
  (last.op = "create_sparse_accessor" /\ last.exc = "none") =>
    LET r == read_sparse_accessor(arena, last.ret)
    IN r.exc = "none" /\ PyListEq(r.val, last.values)

\* C3 (as claimed): whenever _create_optimized_accessor has returned an
\* accessor index, read_sparse_accessor of that index returns a list equal to
\* the values passed in, on the sparse path and on the dense path.
C3_OptimizedEquivalence ==
  (last.op = "_create_optimized_accessor" /\ last.exc = "none") =>
    LET r == read_sparse_accessor(arena, last.ret)
    IN r.exc = "none" /\ PyListEq(r.val, last.values)

\* the least multiple of 4 that is >= n
Aligned(n) == ((n + 3) \div 4) * 4

\* C6: a create_buffer_view(data) call keeps the bytes and views it found,
\* pads buffer 0 with zero bytes to the next multiple of 4, appends the one
\* view {buffer 0, byteOffset = padded length, byteLength = len(data)}, puts
\* data at that offset and returns the view-list length before the call; and
\* every byteOffset recorded in the arena is a multiple of 4.
C6_BufferViewContract ==
  /\ \A i \in 1..Len(arena.views) : arena.views[i].byteOffset % 4 = 0
  /\ last.op = "create_buffer_view" =>
       LET pre == last.pre
           off == Aligned(Len(pre.buf))
       IN /\ last.exc = "none"
          /\ last.ret = Len(pre.views)
          /\ arena.views =
               Append(pre.views,
                      [buffer |-> 0, byteOffset |-> off, byteLength |-> Len(last.data)])
          /\ Len(arena.buf) = off + Len(last.data)
          /\ \A i \in 1..Len(pre.buf) : arena.buf[i] = pre.buf[i]
          /\ \A i \in (Len(pre.buf) + 1)..off : arena.buf[i] = 0
          /\ ViewBytes(last.ret) = last.data
          /\ arena.accs = pre.accs

\* a second create_buffer_view call, on an unaligned buffer, with data
C6_Witness ==
  /\ last.op = "create_buffer_view"
  /\ Len(last.pre.buf) % 4 # 0
  /\ Len(last.pre.views) >= 1
  /\ Len(last.data) > 0

\* the elements of values that differ from the zero scalar / zero vector
IsZeroElement(v) ==
  IF IsNum(v) THEN v.k # "floatbits" /\ Halves(v) = 0
  ELSE \A j \in 1..Len(v.c) : v.c[j].k # "floatbits" /\ Halves(v.c[j]) = 0

NonZeroPositions(values) == {i \in 1..Len(values) : ~IsZeroElement(values[i])}

\* C7 (as claimed): create_sparse_accessor emits, for k = 0 non-default
\* elements, exactly one dense accessor with count 1 and no sparse field; for
\* k > 0 an accessor with count = len(values) whose sparse descriptor has
\* count k, an indices view (componentType 5125) holding the positions of the
\* non-default elements as ascending uint32, and a values view of k elements.
C7_SparseShape ==
  last.op = "create_sparse_accessor" =>
    LET k == Cardinality(NonZeroPositions(last.values))
        acc == LastAccessor
    IN /\ last.exc = "none"
       /\ Len(arena.accs) = Len(last.pre.accs) + 1
       /\ last.ret = Len(last.pre.accs)
       /\ k = 0 => /\ acc.count = 1
                   /\ "sparse" \notin DOMAIN acc
                   /\ "bufferView" \in DOMAIN acc
       /\ k > 0 => /\ acc.count = Len(last.values)
                   /\ "sparse" \in DOMAIN acc
                   /\ acc.sparse.count = k
                   /\ acc.sparse.indices.componentType = 5125
                   /\ LET ib == ViewBytes(acc.sparse.indices.bufferView)
                          vb == ViewBytes(acc.sparse.values.bufferView)
                      IN /\ Len(ib) = 4 * k
                         /\ \A m \in 0..(k - 1) : WordAt(ib, m) + 1 \in NonZeroPositions(last.values)
                         /\ \A m \in 0..(k - 2) : WordAt(ib, m) < WordAt(ib, m + 1)
                         /\ Len(vb) = 4 * k * Components(last.accessor_type)

\* the accessor just emitted has the shape the sparse path gives it
TookSparsePath(acc) ==
  \/ "sparse" \in DOMAIN acc
  \/ acc.count = 1 /\ "min" \notin DOMAIN acc

\* the accessor just emitted has the shape the dense path gives it
TookDensePath(acc, values) ==
  /\ "sparse" \notin DOMAIN acc
  /\ acc.count = Len(values)
  /\ values # <<>> => "min" \in DOMAIN acc

\* C8 (as claimed): _create_optimized_accessor takes the sparse path exactly
\* when len(values) >= 100 and fewer than 30% of the elements are non-default.
C8_ChoiceAtLeast100 ==
  (last.op = "_create_optimized_accessor" /\ last.exc = "none") =>
    LET n == Len(last.values)
        k == Cardinality(NonZeroPositions(last.values))
    IN IF n >= 100 /\ 10 * k < 3 * n
         THEN TookSparsePath(LastAccessor)
         ELSE TookDensePath(LastAccessor, last.values)

\* C8 (amended): _create_optimized_accessor takes the sparse path exactly when
\* len(values) > 100 and fewer than 30% of the elements are non-default; every
\* array of at most 100 elements takes the dense path.
C8_ChoiceAbove100 ==
  (last.op = "_create_optimized_accessor" /\ last.exc = "none") =>
    LET n == Len(last.values)
        k == Cardinality(NonZeroPositions(last.values))
    IN IF n > 100 /\ 10 * k < 3 * n
         THEN TookSparsePath(LastAccessor) /\ ~TookDensePath(LastAccessor, last.values)
         ELSE TookDensePath(LastAccessor, last.values) /\ ~TookSparsePath(LastAccessor)

\* the chooser has run on an array of exactly 100 elements of low density
C8_Witness ==
  /\ last.op = "_create_optimized_accessor"
  /\ last.exc = "none"
  /\ Len(last.values) = 100
  /\ 10 * Cardinality(NonZeroPositions(last.values)) < 3 * Len(last.values)

\* the list a reader indexes
Records(op) == IF op = "read_buffer_view" THEN last.pre.views ELSE last.pre.accs

\* C9 (as claimed, any out-of-range error accepted): a reader given an index
\* outside 0 .. len-1 fails and returns no data.
C9_OutOfRangeFails ==
  (/\ last.op \in {"read_buffer_view", "read_accessor_data", "read_sparse_accessor"}
   /\ (last.index < 0 \/ last.index >= Len(Records(last.op))))
  => last.exc \in {"ValueError", "IndexError"}

(***************************************************************************)
(* The codec as a state machine: the extractor, the encoder writing to the *)
(* arena, and the decoder reading a document.                              *)
(***************************************************************************)
MaxCodecCalls == 2

\* vertex positions, all different
Positions(n) == [i \in 1..n |-> Vector(i % 5, (2 * i) % 5, 0)]

WithCrease(mesh, edge_index, halves) ==
  [mesh EXCEPT !.edges[edge_index + 1].crease = PyFloat(halves)]

EmptyMesh == from_pydata(<<>>, <<>>, <<>>)

VerticesOnly == from_pydata(Positions(2), <<>>, <<>>)

LooseEdge == from_pydata(Positions(2), << <<1, 0>> >>, <<>>)

CreasedEdge == WithCrease(LooseEdge, 0, 1)

Triangle == from_pydata(Positions(3), <<>>, << <<0, 1, 2>> >>)

Quad == from_pydata(Positions(4), <<>>, << <<0, 1, 2, 3>> >>)

TwoTriangles == from_pydata(Positions(4), <<>>, << <<0, 1, 2>>, <<2, 1, 3>> >>)

TwoQuads == from_pydata(Positions(6), <<>>, << <<0, 1, 2, 3>>, <<1, 4, 5, 2>> >>)

\* three triangles on the edge (0, 1): a non-manifold edge
Fan == from_pydata(Positions(5), <<>>, << <<0, 1, 2>>, <<1, 0, 3>>, <<0, 1, 4>> >>)

Meshes ==
  { EmptyMesh, VerticesOnly, LooseEdge, CreasedEdge, Triangle, Quad,
    TwoTriangles, TwoQuads, Fan }

\* analyze_mesh_topology of each mesh, tabulated
Analysis == [mesh \in Meshes |-> analyze_mesh_topology(mesh)]

\* a document: the glTF arrays and buffer, and the extension block of a primitive
Document(a, extension_data) ==
  [arena |-> a, ext |-> extension_data, roundtrip |-> FALSE, mesh |-> EmptyMesh]

\* the document the encoder call r has written
Written(r) == Document(r.a, r.ret)

\* one triangle given by its vertices and its face alone (no edge, no loop)
TriangleTopology ==
  [vertices |-> [i \in 1..3 |-> [id |-> i - 1, position |-> Positions(3)[i], edges |-> <<>>]],
   edges |-> <<>>,
   loops |-> <<>>,
   faces |-> << [id |-> 0, vertices |-> <<0, 1, 2>>, edges |-> <<>>, loops |-> <<>>,
                 normal |-> Vector(0, 0, 2)] >>]

\* what the encoder writes for it: positions, the flat face vertices,
\* the normals and one offsets row
TriangleDocument == Written(export_bmesh_topology(EmptyArena, TriangleTopology))

\* what the encoder writes for the loose edge
LooseEdgeDocument ==
  Written(export_bmesh_topology(EmptyArena, analyze_mesh_topology(LooseEdge).val))

\* a block whose accessor does not exist, and a block without its count
DanglingDocument == Document(EmptyArena, [vertices |-> [count |-> 1, positions |-> 0]])

CountlessDocument == Document(TriangleDocument.arena, [vertices |-> [positions |-> 0]])

\* each <<key, values>> written as a SCALAR uint32 accessor under its key
RECURSIVE PutArrays(_, _)
PutArrays(s, arrays) ==
  IF arrays = <<>> THEN s
  ELSE PutArrays(Put(s, Head(arrays)[1], UIntArrayAccessor(s.a, Ints(Head(arrays)[2]))),
                 Tail(arrays))

\* the rows written as one VEC3 uint32 accessor under "offsets"
PutOffsets(s, rows) ==
  Put(s, "offsets",
      ViewAccessor(create_buffer_view(s.a, OffsetsData(rows)), 5125, Len(rows), "VEC3"))

\* a document whose block has the one section s.ret
SectionDocument(key, s) == Document(s.a, (key :> s.ret))

\* dict without the key
Without(dict, key) == [k \in DOMAIN dict \ {key} |-> dict[k]]

WithoutField(doc, section, key) == [doc EXCEPT !.ext[section] = Without(@, key)]

WithCount(doc, section, count) == [doc EXCEPT !.ext[section].count = count]

\* three loops of one triangle, every array different from the decoder's defaults
LoopArrays ==
  << << "topology_vertex", <<2, 0, 1>> >>, << "topology_edge", <<1, 2, 0>> >>,
     << "topology_face", <<1, 1, 1>> >>, << "topology_next", <<1, 2, 0>> >>,
     << "topology_prev", <<2, 0, 1>> >>, << "topology_radial_next", <<2, 1, 0>> >>,
     << "topology_radial_prev", <<1, 0, 2>> >> >>

LoopsDocument ==
  SectionDocument("loops", PutValue(PutArrays(Start(EmptyArena), LoopArrays), "count", 3))

\* the loops section with one topology field removed, and with all seven removed
LoopsDocuments ==
  { WithoutField(LoopsDocument, "loops", LoopKeys[k]) : k \in 1..Len(LoopKeys) }
    \cup { Document(LoopsDocument.arena, [loops |-> [count |-> 3]]) }

\* two edges written the way the encoder writes them: 2 * count flat vertex ids
EdgesDocument ==
  SectionDocument("edges",
    PutValue(PutArrays(Start(EmptyArena), << << "vertices", <<0, 1, 1, 2>> >> >>), "count", 2))

\* a quad and a triangle: 7 flat vertices, 5 flat edges, 7 flat loops
FaceArrays ==
  << << "vertices", <<0, 1, 2, 3, 2, 1, 4>> >>, << "edges", <<0, 1, 2, 1, 4>> >>,
     << "loops", <<6, 5, 4, 3, 2, 1, 0>> >> >>

FaceRows == << <<0, 0, 0>>, <<4, 3, 4>> >>

FacesDocument ==
  SectionDocument("faces",
    PutValue(PutOffsets(PutArrays(Start(EmptyArena), FaceArrays), FaceRows), "count", 2))

\* the same faces with the "loops" accessor holding no element
FacesEmptyLoopsDocument ==
  SectionDocument("faces",
    PutValue(PutOffsets(PutArrays(Start(EmptyArena),
                                  << FaceArrays[1], FaceArrays[2], << "loops", <<>> >> >>),
                        FaceRows), "count", 2))

\* the same faces whose offsets run past the flat arrays
FacesPastEndDocument ==
  SectionDocument("faces",
    PutValue(PutOffsets(PutArrays(Start(EmptyArena), FaceArrays),
                        << <<0, 0, 0>>, <<9, 9, 9>> >>), "count", 2))

FacesDocuments ==
  { FacesDocument, FacesEmptyLoopsDocument, FacesPastEndDocument,
    WithoutField(FacesDocument, "faces", "offsets"),
    WithoutField(FacesDocument, "faces", "loops"),
    WithoutField(FacesDocument, "faces", "edges") }

\* three vertices declared, two positions written
ShortVerticesDocument ==
  SectionDocument("vertices",
    PutValue(Put(Start(EmptyArena), "positions", Vector3ArrayAccessor(EmptyArena, Positions(2))),
             "count", 3))

\* sections whose count exceeds the arrays written
ShortDocuments ==
  { ShortVerticesDocument, WithCount(EdgesDocument, "edges", 3),
    WithCount(LoopsDocument, "loops", 4), WithCount(FacesDocument, "faces", 3) }

Documents ==
  { TriangleDocument, LooseEdgeDocument, DanglingDocument, CountlessDocument,
    LoopsDocument, EdgesDocument }
    \cup LoopsDocuments \cup FacesDocuments \cup ShortDocuments

CodecNoCall ==
  [op |-> "none", mesh |-> EmptyMesh, bmesh |-> EmptyBmesh, ext |-> EmptyDict,
   decoded |-> EmptyBmesh, built |-> EmptyMesh, exc |-> "none", caught |-> "none",
   none |-> FALSE, roundtrip |-> FALSE, pre |-> EmptyArena]

InitCodec ==
  /\ arena \in { [EmptyArena EXCEPT !.buf = b] : b \in InitBuffers }
  /\ last = CodecNoCall
  /\ calls = 0
  /\ json_dict = EmptyDict
  /\ workers = NoWorkers

\* the extractor has returned r for the mesh
Analysed(mesh, r) ==
  /\ last' = [CodecNoCall EXCEPT !.op = "analyze_mesh_topology", !.mesh = mesh,
                                 !.exc = r.exc, !.bmesh = r.val, !.pre = arena]
  /\ arena' = arena
  /\ calls' = calls + 1
  /\ UNCHANGED <<json_dict, workers>>

AnalyzeMeshTopology ==
  /\ calls < MaxCodecCalls
  /\ \E mesh \in Meshes : Analysed(mesh, Analysis[mesh])

\* the encoder has returned r (or raised) for the topology of the mesh
Encoded(mesh, bmesh_data, r) ==
  /\ arena' = r.a
  /\ last' = [CodecNoCall EXCEPT !.op = "export_bmesh_topology", !.mesh = mesh,
                                 !.bmesh = bmesh_data, !.exc = r.exc,
                                 !.ext = IF r.exc = "none" THEN r.ret ELSE EmptyDict,
                                 !.pre = arena]
  /\ calls' = calls + 1
  /\ UNCHANGED <<json_dict, workers>>

ExportBmeshTopology ==
  /\ calls < MaxCodecCalls
  /\ \E mesh \in Meshes :
       Encoded(mesh, Analysis[mesh].val, export_bmesh_topology(arena, Analysis[mesh].val))

\* export_mesh has returned r for the mesh
Exported(mesh, r) ==
  /\ arena' = r.a
  /\ last' = [CodecNoCall EXCEPT !.op = "export_mesh", !.mesh = mesh,
                                 !.exc = r.exc, !.caught = r.caught,
                                 !.none = (r.ret = None),
                                 !.ext = IF r.ret = None THEN EmptyDict ELSE r.ret,
                                 !.pre = arena]
  /\ calls' = calls + 1
  /\ UNCHANGED <<json_dict, workers>>

ExportMesh ==
  /\ calls < MaxCodecCalls
  /\ \E mesh \in Meshes : Exported(mesh, export_mesh(arena, mesh))

\* the block just written together with the arena it was written to
WrittenDocuments ==
  IF last.op \in {"export_bmesh_topology", "export_mesh"} /\ last.exc = "none" /\ ~last.none
    THEN { [arena |-> arena, ext |-> last.ext, roundtrip |-> TRUE, mesh |-> last.mesh] }
    ELSE {}

\* the decoder has returned r (or raised) for the document
Decoded(doc, r) ==
  /\ last' = [CodecNoCall EXCEPT !.op = "reconstruct_bmesh_topology", !.ext = doc.ext,
                                 !.mesh = doc.mesh, !.roundtrip = doc.roundtrip,
                                 !.exc = r.exc,
                                 !.decoded = IF r.exc = "none" THEN r.val ELSE EmptyBmesh,
                                 !.pre = doc.arena]
  /\ arena' = arena
  /\ calls' = calls + 1
  /\ UNCHANGED <<json_dict, workers>>

ReconstructBmeshTopology ==
  /\ calls < MaxCodecCalls
  /\ \E doc \in Documents \cup WrittenDocuments :
       Decoded(doc, reconstruct_bmesh_topology(doc.arena, doc.ext))

\* primitives: without "extensions", with an empty "extensions", with another
\* extension only, and with the block of a document
Primitives(doc) ==
  { EmptyDict, [extensions |-> EmptyDict], [extensions |-> [KHR_materials_unlit |-> EmptyDict]],
    [extensions |-> [EXT_mesh_bmesh |-> doc.ext]] }

\* import_primitive has returned r for the primitive of the document
Imported(doc, primitive, r) ==
  /\ last' = [CodecNoCall EXCEPT !.op = "import_primitive",
                                 !.ext = IF HasExtension(primitive)
                                           THEN primitive.extensions.EXT_mesh_bmesh
                                           ELSE EmptyDict,
                                 !.exc = r.exc, !.caught = r.caught,
                                 !.none = (r.ret = None),
                                 !.built = IF r.ret = None THEN EmptyMesh ELSE r.ret,
                                 !.pre = doc.arena]
  /\ arena' = arena
  /\ calls' = calls + 1
  /\ UNCHANGED <<json_dict, workers>>

ImportPrimitive ==
  /\ calls < MaxCodecCalls
  /\ \E doc \in Documents \cup WrittenDocuments :
       \E primitive \in Primitives(doc) : \E host_ok \in BOOLEAN :
         Imported(doc, primitive, import_primitive(doc.arena, primitive, host_ok))

NextCodec ==
  \/ ExportBmeshTopology
  \/ AnalyzeMeshTopology
  \/ ExportMesh
  \/ ReconstructBmeshTopology
  \/ ImportPrimitive

SpecCodec == InitCodec /\ [][NextCodec]_vars

(***************************************************************************)
(* export_primitive on a glTF document                                     *)
(***************************************************************************)
MaxDocumentCalls == 3

ExtensionName == "EXT_mesh_bmesh"

\* dict.get(key, default)
Get(dict, key, default) == IF key \in DOMAIN dict THEN dict[key] ELSE default

\* "x in list"
Contains(list, x) == \E i \in 1..Len(list) : list[i] = x

\* the name appended on every call
MarkUsed_Always(json) ==
  ("extensionsUsed" :> Append(Get(json, "extensionsUsed", <<>>), ExtensionName)) @@ json

\* extensions_used = json_dict.get("extensionsUsed", []); the name is
\* appended and the key set only if the name is not in the list
MarkUsed(json) ==
  IF Contains(Get(json, "extensionsUsed", <<>>), ExtensionName) THEN json
  ELSE ("extensionsUsed" :> Append(Get(json, "extensionsUsed", <<>>), ExtensionName)) @@ json

\* the placeholder block of a primitive with the given POSITION accessor
MinimalExtension(vertex_count, position_accessor) ==
  [vertices |-> [count |-> vertex_count, positions |-> position_accessor],
   edges |-> [count |-> IF vertex_count - 1 > 0 THEN vertex_count - 1 ELSE 0,
             vertices |-> position_accessor],
   loops |-> [count |-> vertex_count,
              topology_vertex |-> None, topology_edge |-> None, topology_face |-> None,
              topology_next |-> None, topology_prev |-> None,
              topology_radial_next |-> None, topology_radial_prev |-> None],
   faces |-> [count |-> 1, vertices |-> None, offsets |-> None]]

\* primitive.setdefault("extensions", {})["EXT_mesh_bmesh"] = extension_data
SetExtension(primitive, extension_data) ==
  ("extensions" :> ((ExtensionName :> extension_data) @@ Get(primitive, "extensions", EmptyDict)))
    @@ primitive

\* the outcome of export_primitive: the exception that left the call, the
\* primitive and the document after it, and whether the block was attached
PrimitiveOutcome(exc, primitive, json, attached) ==
  [exc |-> exc, primitive |-> primitive, json |-> json, attached |-> attached]

\* position_data is what read_accessor_data returned, the pair (values,
\* accessor_type), so that len(position_data) is the length of the pair
AttachMinimal(primitive, json, position_accessor, position_data) ==
  IF position_data.exc # "none"
    THEN PrimitiveOutcome(position_data.exc, primitive, json, FALSE)
  ELSE IF Len(<<position_data.val, "accessor_type">>) = 0
    THEN PrimitiveOutcome("none", primitive, json, FALSE)
  ELSE PrimitiveOutcome("none",
         SetExtension(primitive,
                      MinimalExtension(Len(<<position_data.val, "accessor_type">>),
                                       position_accessor)),
         MarkUsed(json), TRUE)

export_primitive(a, primitive, json) ==
  IF "POSITION" \notin DOMAIN Get(primitive, "attributes", EmptyDict)
    THEN PrimitiveOutcome("none", primitive, json, FALSE)
    ELSE AttachMinimal(primitive, json, primitive.attributes.POSITION,
                       read_accessor_data(a, primitive.attributes.POSITION))

\* the exporter's glTF data: three positions behind accessor 0, none behind
\* accessor 1
PositionsArena ==
  Vector3ArrayAccessor(
    Vector3ArrayAccessor([EmptyArena EXCEPT !.buf = <<9>>], Positions(3)).a, <<>>).a

\* documents whose extensionsUsed is absent, or holds the name at most once
JsonDicts ==
  { EmptyDict } \cup
  { [extensionsUsed |-> used] :
      used \in { <<>>, <<"KHR_materials_unlit">>, <<ExtensionName>>,
                 <<"KHR_materials_unlit", ExtensionName>>,
                 <<ExtensionName, "KHR_materials_unlit">>,
                 <<"KHR_materials_unlit", ExtensionName, "KHR_texture_transform">> } }

\* primitives without attributes, without POSITION, with a POSITION accessor
\* that exists (0, and 1 without elements) or not (7), and with another
\* extension already attached
ExportPrimitives ==
  { EmptyDict, [attributes |-> [NORMAL |-> 0]], [attributes |-> [POSITION |-> 0]],
    [attributes |-> [POSITION |-> 1]], [attributes |-> [POSITION |-> 7]],
    [attributes |-> [POSITION |-> 0], extensions |-> [KHR_materials_variants |-> EmptyDict]] }

DocumentNoCall ==
  [op |-> "none", primitive |-> EmptyDict, exc |-> "none", attached |-> FALSE,
   attached_once |-> FALSE, initial |-> EmptyDict, pre |-> EmptyDict]

InitDocument ==
  /\ arena \in { EmptyArena, PositionsArena }
  /\ json_dict \in JsonDicts
  /\ last = [DocumentNoCall EXCEPT !.initial = json_dict]
  /\ calls = 0
  /\ workers = NoWorkers

\* export_primitive has returned r (or raised) for the primitive
ExportedPrimitive(r) ==
  /\ json_dict' = r.json
  /\ last' = [last EXCEPT !.op = "export_primitive", !.primitive = r.primitive,
                          !.exc = r.exc, !.attached = r.attached,
                          !.attached_once = last.attached_once \/ r.attached,
                          !.pre = json_dict]
  /\ arena' = arena
  /\ calls' = calls + 1
  /\ UNCHANGED workers

ExportPrimitive ==
  /\ calls < MaxDocumentCalls
  /\ \E primitive \in ExportPrimitives :
       ExportedPrimitive(export_primitive(arena, primitive, json_dict))

NextDocument == ExportPrimitive

SpecDocument == InitDocument /\ [][NextDocument]_vars

(***************************************************************************)
(* create_buffer_view taken one statement at a time by callers that share  *)
(* one exporter (self.buffers[0] and self.buffer_views) without a lock.    *)
(* A caller is at a statement (pc) and holds its locals; any caller that   *)
(* is inside a call may take the next step.                                *)
(***************************************************************************)
MaxInterleavedCalls == 2

\* callers racing in the alignment loop can pad without end; the padding
\* stops at this buffer length
MaxBufferLen == 20

\* the index that is always 0
NextViewIndex_First(buffer_views) == 0

\* "buffer_view_index = len(self.buffer_views)"
NextViewIndex(buffer_views) == Len(buffer_views)

\* caller t has taken a step that leaves it at pc; the step overlaps another
\* call when some other caller is inside one
Stepped(w, t, pc) ==
  [w EXCEPT !.pc[t] = pc,
            !.overlapped = w.overlapped \/ \E u \in Workers \ {t} : w.pc[u] # "idle"]

InitInterleaved ==
  /\ arena \in { [EmptyArena EXCEPT !.buf = b] : b \in InitBuffers }
  /\ last = NoCall
  /\ calls = 0
  /\ json_dict = EmptyDict
  /\ workers = NoWorkers

\* caller t enters create_buffer_view(data)
Call(t) ==
  /\ workers.pc[t] = "idle"
  /\ calls < MaxInterleavedCalls
  /\ \E data \in BufferData :
       workers' = [Stepped(workers, t, "while") EXCEPT !.data[t] = data]
  /\ calls' = calls + 1
  /\ UNCHANGED <<arena, last, json_dict>>

\* "while len(self.buffers[0]) % 4 != 0:"
While(t) ==
  /\ workers.pc[t] = "while"
  /\ workers' = Stepped(workers, t,
                        IF Len(arena.buf) % 4 # 0 THEN "append0" ELSE "index")
  /\ UNCHANGED <<arena, last, calls, json_dict>>

\* "self.buffers[0].append(0)"
AppendZero(t) ==
  /\ workers.pc[t] = "append0"
  /\ Len(arena.buf) < MaxBufferLen
  /\ arena' = [arena EXCEPT !.buf = Append(arena.buf, 0)]
  /\ workers' = Stepped(workers, t, "while")
  /\ UNCHANGED <<last, calls, json_dict>>

\* "buffer_view_index = len(self.buffer_views)"
ReadIndex(t) ==
  /\ workers.pc[t] = "index"
  /\ workers' = [Stepped(workers, t, "offset") EXCEPT
                   !.buffer_view_index[t] = NextViewIndex(arena.views)]
  /\ UNCHANGED <<arena, last, calls, json_dict>>

\* "byte_offset = len(self.buffers[0])"
ReadOffset(t) ==
  /\ workers.pc[t] = "offset"
  /\ workers' = [Stepped(workers, t, "view") EXCEPT !.byte_offset[t] = Len(arena.buf)]
  /\ UNCHANGED <<arena, last, calls, json_dict>>

\* "self.buffer_views.append(buffer_view)"; view is the place of the record
AppendView(t) ==
  /\ workers.pc[t] = "view"
  /\ arena' = [arena EXCEPT !.views =
                  Append(arena.views, [buffer |-> 0,
                                       byteOffset |-> workers.byte_offset[t],
                                       byteLength |-> Len(workers.data[t])])]
  /\ workers' = [Stepped(workers, t, "extend") EXCEPT !.view[t] = Len(arena.views)]
  /\ UNCHANGED <<last, calls, json_dict>>

\* "self.buffers[0].extend(data)"
ExtendBuffer(t) ==
  /\ workers.pc[t] = "extend"
  /\ arena' = [arena EXCEPT !.buf = arena.buf \o workers.data[t]]
  /\ workers' = Stepped(workers, t, "return")
  /\ UNCHANGED <<last, calls, json_dict>>

\* "return buffer_view_index"
Return(t) ==
  /\ workers.pc[t] = "return"
  /\ workers' = [Stepped(workers, t, "idle") EXCEPT
                   !.returned = Append(workers.returned,
                                       [data |-> workers.data[t],
                                        view |-> workers.view[t],
                                        ret |-> workers.buffer_view_index[t]])]
  /\ UNCHANGED <<arena, last, calls, json_dict>>

NextInterleaved ==
  \E t \in Workers :
    \/ Call(t)
    \/ While(t)
    \/ AppendZero(t)
    \/ ReadIndex(t)
    \/ ReadOffset(t)
    \/ AppendView(t)
    \/ ExtendBuffer(t)
    \/ Return(t)

SpecInterleaved == InitInterleaved /\ [][NextInterleaved]_vars

(***************************************************************************)
(* Properties of the extractor, the encoder and the decoder                *)
(***************************************************************************)
\* every face has at least 3 vertices and no edge is shared by more than two faces
Manifold(mesh) ==
  /\ \A f \in 1..Len(mesh.polygons) : mesh.polygons[f].loop_total >= 3
  /\ LET edges == Analysis[mesh].val.edges
     IN \A e \in 1..Len(edges) : Len(edges[e].faces) <= 2

\* the same vertex positions, per-face vertex lists and loop links
SameTopology(x, y) ==
  /\ Len(x.vertices) = Len(y.vertices)
  /\ \A i \in 1..Len(x.vertices) : PyEq(x.vertices[i].position, y.vertices[i].position)
  /\ Len(x.faces) = Len(y.faces)
  /\ \A i \in 1..Len(x.faces) : x.faces[i].vertices = y.faces[i].vertices
  /\ Len(x.loops) = Len(y.loops)
  /\ \A i \in 1..Len(x.loops) :
       /\ x.loops[i].next = y.loops[i].next
       /\ x.loops[i].prev = y.loops[i].prev
       /\ x.loops[i].radial_next = y.loops[i].radial_next
       /\ x.loops[i].radial_prev = y.loops[i].radial_prev

\* C1: for a mesh whose faces all have at least 3 vertices and whose edges
\* are shared by at most two faces, export_bmesh_topology of the analysed
\* mesh produces a block, and reconstruct_bmesh_topology of that block and
\* buffer yields the vertex positions, per-face vertex lists and loop links
\* of analyze_mesh_topology(mesh).
C1_RoundTrip ==
  /\ (last.op = "export_bmesh_topology" /\ Manifold(last.mesh)) => last.exc = "none"
  /\ (last.op = "reconstruct_bmesh_topology" /\ last.roundtrip /\ Manifold(last.mesh)) =>
       /\ last.exc = "none"
       /\ SameTopology(Analysis[last.mesh].val, last.decoded)

\* the loop reached from loop l by k steps of radial_next
RECURSIVE RadialSteps(_, _, _)
RadialSteps(loops, l, k) ==
  IF k = 0 THEN l ELSE RadialSteps(loops, loops[l + 1].radial_next, k - 1)

Sections == {"vertices", "edges", "loops", "faces"}

\* C10: analyze_mesh_topology of a mesh with zero faces returns
\* four empty record sets, and export_bmesh_topology of that result returns a
\* block with all four sections, every count 0, creating no buffer view and
\* no accessor.
C10_ZeroFacesFourSections ==
  /\ (last.op = "analyze_mesh_topology" /\ last.mesh.polygons = <<>>) =>
       /\ last.exc = "none"
       /\ \A key \in Sections : last.bmesh[key] = <<>>
  /\ (last.op = "export_bmesh_topology" /\ last.mesh.polygons = <<>>) =>
       /\ last.exc = "none"
       /\ \A key \in Sections : key \in DOMAIN last.ext /\ last.ext[key].count = 0
       /\ arena.views = last.pre.views
       /\ arena.accs = last.pre.accs

\* C11: a non-empty block returned by export_bmesh_topology or export_mesh
\* (the block that gets attached) holds all four top-level keys vertices,
\* edges, loops and faces; a block with only some of them is never emitted.
C11_MandatorySections ==
  (/\ last.op \in {"export_bmesh_topology", "export_mesh"}
   /\ last.exc = "none"
   /\ ~last.none
   /\ last.ext # EmptyDict) => Sections \subseteq DOMAIN last.ext

HasKeys(section, keys) == keys \subseteq DOMAIN section

LoopKeySet == {LoopKeys[k] : k \in 1..Len(LoopKeys)}

\* C12: for a mesh with at least one face export_bmesh_topology of its
\* analysed topology completes, and the block has vertices with count and
\* positions, edges with count and vertices, loops with count and the seven
\* topology fields (each an accessor index), and faces with count, vertices
\* and offsets.
C12_OutputStructure ==
  (last.op = "export_bmesh_topology" /\ last.mesh.polygons # <<>>) =>
    /\ last.exc = "none"
    /\ Sections \subseteq DOMAIN last.ext
    /\ HasKeys(last.ext.vertices, {"count", "positions"})
    /\ HasKeys(last.ext.edges, {"count", "vertices"})
    /\ HasKeys(last.ext.loops, {"count"} \cup LoopKeySet)
    /\ \A key \in LoopKeySet : last.ext.loops[key] \in 0..(Len(arena.accs) - 1)
    /\ HasKeys(last.ext.faces, {"count", "vertices", "offsets"})

(***************************************************************************)
(* Properties of the decoder on given blocks                               *)
(***************************************************************************)
\* every section of the block declares its count
HasCounts(extension_data) ==
  \A key \in DOMAIN extension_data : "count" \in DOMAIN extension_data[key]

\* every accessor a section of the block refers to resolves
AllResolve(a, extension_data) ==
  \A key \in DOMAIN extension_data :
    \A field \in DOMAIN extension_data[key] \ {"count", "attributes"} :
      read_sparse_accessor(a, extension_data[key][field]).exc = "none"

\* reconstruct_bmesh_topology has been called on a block that has the
\* section, with every count declared and every accessor resolving
DecodedSection(key) ==
  /\ last.op = "reconstruct_bmesh_topology"
  /\ key \in DOMAIN last.ext
  /\ HasCounts(last.ext)
  /\ AllResolve(last.pre, last.ext)

\* the array a field of a section resolves to, [] for a field not present
Resolved(key, field) ==
  IF field \in DOMAIN last.ext[key]
    THEN read_sparse_accessor(last.pre, last.ext[key][field]).val
    ELSE <<>>

\* C13: on a block whose loops section has count n and no topology_next,
\* every referenced accessor being valid, reconstruct_bmesh_topology does
\* not raise and produces n loops with next = i for loop i.
C13_MissingNextDefaults ==
  (DecodedSection("loops") /\ "topology_next" \notin DOMAIN last.ext.loops) =>
    /\ last.exc = "none"
    /\ Len(last.decoded.loops) = last.ext.loops.count
    /\ \A i \in 1..Len(last.decoded.loops) : last.decoded.loops[i].next = i - 1

\* three loops have been rebuilt from a section that has topology_prev but
\* not topology_next
C13_Witness ==
  /\ DecodedSection("loops")
  /\ "topology_next" \notin DOMAIN last.ext.loops
  /\ "topology_prev" \in DOMAIN last.ext.loops
  /\ Len(last.decoded.loops) = 3

\* C14: on a faces section with count n and no offsets field,
\* reconstruct_bmesh_topology does not raise and emits exactly n faces with
\* ids 0..n-1, each with empty vertices, edges and loops.
C14_NoOffsetsEmptyFaces ==
  (DecodedSection("faces") /\ "offsets" \notin DOMAIN last.ext.faces) =>
    /\ last.exc = "none"
    /\ Len(last.decoded.faces) = last.ext.faces.count
    /\ \A i \in 1..Len(last.decoded.faces) :
         /\ last.decoded.faces[i].id = i - 1
         /\ last.decoded.faces[i].vertices = <<>>
         /\ last.decoded.faces[i].edges = <<>>
         /\ last.decoded.faces[i].loops = <<>>

\* the field from which the decoder rebuilds the records of a section
\* (loops are rebuilt from the count alone)
RecordField(key) ==
  CASE key = "vertices" -> "positions"
    [] key = "edges" -> "vertices"
    [] key = "loops" -> "count"
    [] key = "faces" -> "offsets"

\* C15: on a block whose accessors all resolve, reconstruct_bmesh_topology
\* does not raise, also when a resolved array is shorter than the declared
\* count; every section yields count records, and a vertex beyond the
\* positions read gets (0, 0, 0).
C15_DefensiveDefaults ==
  (last.op = "reconstruct_bmesh_topology" /\ HasCounts(last.ext)
     /\ AllResolve(last.pre, last.ext)) =>
    /\ last.exc = "none"
    /\ \A key \in Sections \cap DOMAIN last.ext :
         RecordField(key) \in DOMAIN last.ext[key] =>
           Len(last.decoded[key]) = last.ext[key].count
    /\ \A i \in 1..Len(last.decoded.vertices) :
         i > Len(Resolved("vertices", "positions")) =>
           last.decoded.vertices[i].position = Vector(0, 0, 0)

\* the array is a flat list of 2 * count integers
FlatPairs(array, count) ==
  /\ Len(array) = 2 * count
  /\ \A j \in 1..Len(array) : array[j].k = "int"

\* C18: when the vertices accessor of an edges section with count n resolves
\* to the flat list of 2n vertex ids the encoder writes, the decoder produces
\* n edges, edge i with vertices [flat[2i], flat[2i+1]].
C18_EdgePairing ==
  (/\ DecodedSection("edges")
   /\ "vertices" \in DOMAIN last.ext.edges
   /\ FlatPairs(Resolved("edges", "vertices"), last.ext.edges.count)) =>
    /\ last.exc = "none"
    /\ Len(last.decoded.edges) = last.ext.edges.count
    /\ \A i \in 1..Len(last.decoded.edges) :
         last.decoded.edges[i].vertices =
           << Resolved("edges", "vertices")[2 * i - 1].n, Resolved("edges", "vertices")[2 * i].n >>

\* the loop record fields, in the order of LoopKeys
LoopFieldNames ==
  << "vertex", "edge", "face", "next", "prev", "radial_next", "radial_prev" >>

\* n loops have been rebuilt
RebuiltLoops ==
  /\ DecodedSection("loops")
  /\ last.exc = "none"
  /\ Len(last.decoded.loops) = last.ext.loops.count

\* C19 as stated: each of the seven topology fields missing from the loops
\* section is given the value i in loop i.
C19_MissingFieldIsIndex ==
  RebuiltLoops =>
    \A k \in 1..Len(LoopKeys) :
      LoopKeys[k] \notin DOMAIN last.ext.loops =>
        \A i \in 1..Len(last.decoded.loops) :
          last.decoded.loops[i][LoopFieldNames[k]] = i - 1

\* C19: a missing next, prev, radial_next or radial_prev is given the value
\* i in loop i; a missing vertex, edge or face is given 0 in every loop.
C19_MissingFieldDefaults ==
  RebuiltLoops =>
    \A k \in 1..Len(LoopKeys) :
      LoopKeys[k] \notin DOMAIN last.ext.loops =>
        \A i \in 1..Len(last.decoded.loops) :
          last.decoded.loops[i][LoopFieldNames[k]] = IF k <= 3 THEN 0 ELSE i - 1

\* three loops have been rebuilt from a section that has neither
\* topology_vertex nor topology_radial_prev
C19_Witness ==
  /\ RebuiltLoops
  /\ last.ext.loops.count = 3
  /\ "topology_vertex" \notin DOMAIN last.ext.loops
  /\ "topology_radial_prev" \notin DOMAIN last.ext.loops

\* offsets resolves to one three-wide row per face
RowPerFace ==
  /\ DecodedSection("faces")
  /\ "offsets" \in DOMAIN last.ext.faces
  /\ Len(Resolved("faces", "offsets")) = last.ext.faces.count
  /\ \A i \in 1..last.ext.faces.count :
       IsList(Resolved("faces", "offsets")[i]) /\ Len(Resolved("faces", "offsets")[i].c) = 3

\* flat[off[i][column] : off[i+1][column]] for face i (1-based), ending at
\* the end of flat for the last face
FaceSlice(field, column, i) ==
  Slice([j \in 1..Len(Resolved("faces", field)) |-> IntOf(Resolved("faces", field)[j])],
        IntOf(Resolved("faces", "offsets")[i].c[column]),
        IF i = last.ext.faces.count
          THEN Len(Resolved("faces", field))
          ELSE IntOf(Resolved("faces", "offsets")[i + 1].c[column]))

\* the first n faces rebuilt have the vertices and edges slices
SlicedVerticesAndEdges ==
  /\ last.exc = "none"
  /\ Len(last.decoded.faces) >= last.ext.faces.count
  /\ \A i \in 1..last.ext.faces.count :
       /\ last.decoded.faces[i].id = i - 1
       /\ last.decoded.faces[i].vertices = FaceSlice("vertices", 1, i)
       /\ last.decoded.faces[i].edges = FaceSlice("edges", 2, i)

\* C20 as stated: with one three-wide offsets row per face, face i has
\* vertices, edges and loops equal to the slices of the flattened arrays from
\* its own offsets to those of the next face (the end of the array for the
\* last face).
C20_FaceSlices ==
  RowPerFace =>
    /\ SlicedVerticesAndEdges
    /\ \A i \in 1..last.ext.faces.count :
         last.decoded.faces[i].loops = FaceSlice("loops", 3, i)

\* C20: the same for vertices and edges, and for loops when the flattened
\* loops array has elements; when the loops field is absent or resolves to
\* no element, the loops of face i are off[i][2], off[i][2] + 1, ... as many
\* as the face has vertices.
C20_FaceSlicesOrLoopRange ==
  RowPerFace =>
    /\ SlicedVerticesAndEdges
    /\ \A i \in 1..last.ext.faces.count :
         last.decoded.faces[i].loops =
           IF Resolved("faces", "loops") # <<>>
             THEN FaceSlice("loops", 3, i)
             ELSE [k \in 1..Len(last.decoded.faces[i].vertices) |->
                     IntOf(Resolved("faces", "offsets")[i].c[3]) + k - 1]

\* a quad and a triangle have been sliced out of the three flattened arrays
C20_Witness ==
  /\ RowPerFace
  /\ last.ext.faces.count = 2
  /\ Resolved("faces", "loops") # <<>>
  /\ Len(last.decoded.faces[1].vertices) = 4
  /\ Len(last.decoded.faces[2].edges) = 2

(***************************************************************************)
(* Properties of export_primitive                                          *)
(***************************************************************************)
\* number of entries of the list equal to x
RECURSIVE Occurrences(_, _)
Occurrences(list, x) ==
  IF list = <<>> THEN 0
  ELSE (IF Head(list) = x THEN 1 ELSE 0) + Occurrences(Tail(list), x)

\* C16: from a document whose extensionsUsed holds the name at most once (or
\* is absent), after any number of export_primitive calls the name occurs
\* exactly once if some call attached the extension, and the entries of the
\* initial list are where they were.
C16_DeclaredOnce ==
  /\ last.attached_once =>
       Occurrences(Get(json_dict, "extensionsUsed", <<>>), ExtensionName) = 1
  /\ \/ Get(json_dict, "extensionsUsed", <<>>) = Get(last.initial, "extensionsUsed", <<>>)
     \/ Get(json_dict, "extensionsUsed", <<>>)
          = Append(Get(last.initial, "extensionsUsed", <<>>), ExtensionName)

\* the extension has been attached by two calls in a row to a document that
\* did not declare it
C16_Witness ==
  /\ last.op = "export_primitive"
  /\ last.attached
  /\ calls >= 2
  /\ ~Contains(Get(last.initial, "extensionsUsed", <<>>), ExtensionName)
  /\ HasExtension(last.primitive)

ListStart(faces, field, f) == SumLen([g \in 1..(f - 1) |-> faces[g][field]])

\* the offsets accessor of the block just written
OffsetsAccessor == arena.accs[last.ext.faces.offsets + 1]

\* C21: export_bmesh_topology of a topology with faces writes one offsets
\* element per face, in face order, equal to [vertexListStart,
\* edgeListStart, loopListStart], each start being the summed length of that
\* list over the earlier faces (first face [0, 0, 0]).
C21_FaceOffsets ==
  (last.op = "export_bmesh_topology" /\ last.bmesh.faces # <<>>) =>
    /\ last.exc = "none"
    /\ "faces" \in DOMAIN last.ext
    /\ "offsets" \in DOMAIN last.ext.faces
    /\ OffsetsAccessor.count = Len(last.bmesh.faces)
    /\ OffsetsAccessor.type = "VEC3"
    /\ OffsetsAccessor.componentType = 5125
    /\ Len(ViewBytes(OffsetsAccessor.bufferView)) = 12 * Len(last.bmesh.faces)
    /\ \A f \in 1..Len(last.bmesh.faces) :
         /\ WordAt(ViewBytes(OffsetsAccessor.bufferView), 3 * (f - 1)) =
              ListStart(last.bmesh.faces, "vertices", f)
         /\ WordAt(ViewBytes(OffsetsAccessor.bufferView), 3 * (f - 1) + 1) =
              ListStart(last.bmesh.faces, "edges", f)
         /\ WordAt(ViewBytes(OffsetsAccessor.bufferView), 3 * (f - 1) + 2) =
              ListStart(last.bmesh.faces, "loops", f)

(***************************************************************************)
(* Properties of the sparse reader                                         *)
(***************************************************************************)
\* the accessor handed to the reader in the last call
ReadAccessor == arena.accs[last.index + 1]

\* the m-th (0-based) element stored in the view, read with the shape of
\* the accessor
ViewElement(bv, accessor, m) ==
  IF accessor.type = "SCALAR"
    THEN UnpackOne(FormatChar(accessor.componentType), ViewBytes(bv),
                   m * ByteSize(accessor.componentType))
    ELSE PyList([c \in 1..Components(accessor.type) |->
                   UnpackOne(FormatChar(accessor.componentType), ViewBytes(bv),
                             (m * Components(accessor.type) + c - 1)
                               * ByteSize(accessor.componentType))])

\* the positions m (0-based) of the indices view that name element j
Listing(sparse, j) ==
  { m \in 0..(sparse.count - 1) : WordAt(ViewBytes(sparse.indices.bufferView), m) = j }

\* C22: for an accessor of count n with a sparse descriptor (indices view bi
\* of uint32, values view bv), read_sparse_accessor returns a list of length
\* n whose element j is the m-th element stored in bv whenever the m-th
\* uint32 stored in bi is j, and the default (0 or a zero vector) at every
\* index that bi does not list.
C22_SparseResolution ==
  (/\ last.op = "read_sparse_accessor"
   /\ last.index \in 0..(Len(arena.accs) - 1)
   /\ "sparse" \in DOMAIN ReadAccessor
   /\ ReadAccessor.sparse.indices.componentType = 5125) =>
    /\ last.exc = "none"
    /\ Len(last.out) = ReadAccessor.count
    /\ \A j \in 0..(ReadAccessor.count - 1) :
         /\ \A m \in Listing(ReadAccessor.sparse, j) :
              PyEq(last.out[j + 1],
                   ViewElement(ReadAccessor.sparse.values.bufferView, ReadAccessor, m))
         /\ Listing(ReadAccessor.sparse, j) = {} =>
              PyEq(last.out[j + 1],
                   IF ReadAccessor.type = "SCALAR" THEN PyInt(0)
                   ELSE PyList(Zeros(Components(ReadAccessor.type))))

(***************************************************************************)
(* Properties of the extracted topology                                    *)
(***************************************************************************)
\* the loop record with the given id
LoopOf(bmesh_data, id) ==
  bmesh_data.loops[CHOOSE l \in 1..Len(bmesh_data.loops) : bmesh_data.loops[l].id = id]

\* C23: in the topology returned by analyze_mesh_topology, for every face f
\* with loop list L of length n and every position i, the loop with id L[i]
\* has face = f.id, vertex = f.vertices[i], next = L[(i+1) mod n] and
\* prev = L[(i-1) mod n]; next and prev name loop ids of the same face.
C23_PerFaceLoopCycle ==
  (last.op = "analyze_mesh_topology" /\ last.exc = "none") =>
    \A f \in 1..Len(last.bmesh.faces) :
      LET face == last.bmesh.faces[f]
          n == Len(face.loops)
      IN /\ Len(face.vertices) = n
         /\ \A i \in 0..(n - 1) :
              /\ \E l \in 1..Len(last.bmesh.loops) : last.bmesh.loops[l].id = face.loops[i + 1]
              /\ LoopOf(last.bmesh, face.loops[i + 1]).face = face.id
              /\ LoopOf(last.bmesh, face.loops[i + 1]).vertex = face.vertices[i + 1]
              /\ LoopOf(last.bmesh, face.loops[i + 1]).next = face.loops[((i + 1) % n) + 1]
              /\ LoopOf(last.bmesh, face.loops[i + 1]).prev = face.loops[((i + n - 1) % n) + 1]

\* a mesh of two faces has been analysed: the loops of the second face do
\* not start at 0
C23_Witness ==
  /\ last.op = "analyze_mesh_topology"
  /\ last.exc = "none"
  /\ Len(last.bmesh.faces) = 2
  /\ last.bmesh.faces[2].loops[1] > 0
  /\ LoopOf(last.bmesh, last.bmesh.faces[2].loops[1]).prev > last.bmesh.faces[2].loops[1]

\* x occurs in the list
InList(list, x) == \E k \in 1..Len(list) : list[k] = x

\* vertex v is an endpoint of edge e
IsEndpoint(vertex, edge) == vertex.id = edge.vertices[1] \/ vertex.id = edge.vertices[2]

\* edge e is in the edge list of face f, which holds sorted vertex pairs
InFaceEdges(edge, face) ==
  InList(face.edges, SortedPair(edge.vertices[1], edge.vertices[2]))

\* C24: in the topology produced by the extractor, vertex v is an endpoint
\* of edge e if and only if e.id is in v.edges, and face f is in e.faces if
\* and only if edge e is in f's edge list, for every vertex, edge and face.
C24_AdjacencySymmetry ==
  (last.op = "analyze_mesh_topology" /\ last.exc = "none") =>
    /\ \A v \in 1..Len(last.bmesh.vertices) : \A e \in 1..Len(last.bmesh.edges) :
         IsEndpoint(last.bmesh.vertices[v], last.bmesh.edges[e])
           <=> InList(last.bmesh.vertices[v].edges, last.bmesh.edges[e].id)
    /\ \A e \in 1..Len(last.bmesh.edges) : \A f \in 1..Len(last.bmesh.faces) :
         InList(last.bmesh.edges[e].faces, last.bmesh.faces[f].id)
           <=> InFaceEdges(last.bmesh.edges[e], last.bmesh.faces[f])

\* a mesh has been analysed in which one edge lies on two faces, another
\* edge on one face only, and some vertex is not on some edge
C24_Witness ==
  /\ last.op = "analyze_mesh_topology"
  /\ last.exc = "none"
  /\ \E e \in 1..Len(last.bmesh.edges) : Len(last.bmesh.edges[e].faces) = 2
  /\ \E e \in 1..Len(last.bmesh.edges) : \E f \in 1..Len(last.bmesh.faces) :
       ~InFaceEdges(last.bmesh.edges[e], last.bmesh.faces[f])
  /\ \E v \in 1..Len(last.bmesh.vertices) : \E e \in 1..Len(last.bmesh.edges) :
       ~IsEndpoint(last.bmesh.vertices[v], last.bmesh.edges[e])
  /\ \E v \in 1..Len(last.bmesh.vertices) : Len(last.bmesh.vertices[v].edges) = 3

\* C25 (as claimed): every edge record produced by the extractor has
\* vertices equal to the sorted pair of two valid vertex ids, and no two
\* edge records share the same unordered vertex pair.
C25_EdgeCanonicalForm ==
  (last.op = "analyze_mesh_topology" /\ last.exc = "none") =>
    /\ \A e \in 1..Len(last.bmesh.edges) :
         /\ last.bmesh.edges[e].vertices =
              SortedPair(last.bmesh.edges[e].vertices[1], last.bmesh.edges[e].vertices[2])
         /\ \A k \in 1..2 :
              \E v \in 1..Len(last.bmesh.vertices) :
                last.bmesh.vertices[v].id = last.bmesh.edges[e].vertices[k]
    /\ \A e, g \in 1..Len(last.bmesh.edges) :
         e # g => SortedPair(last.bmesh.edges[e].vertices[1], last.bmesh.edges[e].vertices[2])
                    # SortedPair(last.bmesh.edges[g].vertices[1], last.bmesh.edges[g].vertices[2])

(***************************************************************************)
(* Properties of create_buffer_view under interleaving                     *)
(***************************************************************************)
\* every returned call finds the bytes it passed in the range of the view
\* it recorded, and no two returned calls got the same view index
ViewsIntact ==
  /\ \A r \in 1..Len(workers.returned) :
       ViewBytes(workers.returned[r].view) = workers.returned[r].data
  /\ \A r, q \in 1..Len(workers.returned) :
       r # q => workers.returned[r].ret # workers.returned[q].ret

\* C26: when the create_buffer_view calls on one exporter are serialized (no
\* caller takes a step while another is inside a call), every recorded view's
\* range holds the bytes passed to the call that created it and no two calls
\* return the same view index; without serialization a state is reachable
\* (C26_Witness) in which that fails.
C26_SerializedIsSafe == ~workers.overlapped => ViewsIntact

\* two interleaved calls have returned, and a view does not hold the bytes of
\* its call, or both calls returned the same index
C26_Witness ==
  /\ workers.overlapped
  /\ Len(workers.returned) = 2
  /\ \A t \in Workers : workers.pc[t] = "idle"
  /\ ~ViewsIntact

(***************************************************************************)
(* Properties of the arena                                                 *)
(***************************************************************************)
\* s is an initial part of t
IsPrefix(s, t) == Len(s) <= Len(t) /\ \A i \in 1..Len(s) : t[i] = s[i]

\* n is the index of a view of the arena
IsView(n) == n \in 0..(Len(arena.views) - 1)

\* the byte ranges of two views have no byte in common
Disjoint(v, w) ==
  \/ v.byteLength = 0
  \/ w.byteLength = 0
  \/ v.byteOffset + v.byteLength <= w.byteOffset
  \/ w.byteOffset + w.byteLength <= v.byteOffset

\* C27: after any sequence of create_buffer_view, create_accessor (over a
\* view index returned earlier), create_sparse_accessor,
\* _create_dense_accessor and _create_optimized_accessor calls on one
\* exporter, buffer 0 and the view and accessor lists have only grown (what
\* was there before the last call is unchanged), every view lies inside
\* buffer 0, views do not overlap, and every accessor's bufferView and
\* sparse indices / values bufferView is the index of an existing view.
C27_ArenaWellFormed ==
  /\ IsPrefix(last.pre.buf, arena.buf)
  /\ IsPrefix(last.pre.views, arena.views)
  /\ IsPrefix(last.pre.accs, arena.accs)
  /\ \A i \in 1..Len(arena.views) :
       /\ arena.views[i].byteOffset >= 0
       /\ arena.views[i].byteOffset + arena.views[i].byteLength <= Len(arena.buf)
  /\ \A i, j \in 1..Len(arena.views) :
       i # j => Disjoint(arena.views[i], arena.views[j])
  /\ \A i \in 1..Len(arena.accs) :
       /\ "bufferView" \in DOMAIN arena.accs[i] => IsView(arena.accs[i].bufferView)
       /\ "sparse" \in DOMAIN arena.accs[i] =>
            /\ IsView(arena.accs[i].sparse.indices.bufferView)
            /\ IsView(arena.accs[i].sparse.values.bufferView)
       /\ "bufferView" \in DOMAIN arena.accs[i] \/ "sparse" \in DOMAIN arena.accs[i]

\* a sparse accessor has been appended to an arena that already held a view
\* and bytes
C27_Witness ==
  /\ last.op = "create_sparse_accessor"
  /\ last.exc = "none"
  /\ "sparse" \in DOMAIN LastAccessor
  /\ Len(last.pre.views) >= 1
  /\ Len(last.pre.buf) % 4 # 0
  /\ Len(arena.views) >= 3

\* export_mesh has returned None because it caught an exception
ExportFailed ==
  last.op = "export_mesh" /\ last.none /\ last.caught # "none"

C29_DecodedFaceCount ==
  (/\ last.op = "reconstruct_bmesh_topology"
   /\ last.exc = "none"
   /\ "faces" \in DOMAIN last.ext
   /\ "offsets" \in DOMAIN last.ext.faces) =>
    /\ Len(last.decoded.faces) = last.ext.faces.count
    /\ \A id \in 0..(last.ext.faces.count - 1) :
         Cardinality({f \in 1..Len(last.decoded.faces) : last.decoded.faces[f].id = id}) = 1

(***************************************************************************)
(* Properties of the placeholder block                                     *)
(***************************************************************************)
\* the primitive of the last call names an accessor of the arena as POSITION
HasPosition ==
  /\ "POSITION" \in DOMAIN Get(last.primitive, "attributes", EmptyDict)
  /\ last.primitive.attributes.POSITION \in 0..(Len(arena.accs) - 1)

\* the number of elements of that accessor
PositionCount == arena.accs[last.primitive.attributes.POSITION + 1].count

\* the call has attached nothing and left the document as it was
NothingAttached == ~last.attached /\ json_dict = last.pre

\* C30: for a primitive with a POSITION accessor, export_primitive records
\* vertices.count and loops.count equal to the number of elements of that
\* accessor, and it attaches no extension and leaves extensionsUsed
\* unchanged when the accessor has zero elements or the primitive has no
\* POSITION attribute.
C30_VertexCount ==
  last.op = "export_primitive" =>
    /\ (HasPosition /\ PositionCount > 0) =>
         /\ last.attached
         /\ last.primitive.extensions.EXT_mesh_bmesh.vertices.count = PositionCount
         /\ last.primitive.extensions.EXT_mesh_bmesh.loops.count = PositionCount
    /\ (HasPosition /\ PositionCount = 0) => NothingAttached
    /\ "POSITION" \notin DOMAIN Get(last.primitive, "attributes", EmptyDict) =>
         NothingAttached

====
